---- MODULE Spec2Model ----
(***************************************************************************)
(* Conversation session engine of the visual-novel roleplay front-end:     *)
(* the App component (chat state, handlers), the model-reply parser of     *)
(* geminiService and the IndexedDB store of dbService.                     *)
(***************************************************************************)
EXTENDS Integers, Sequences, FiniteSets, TLC

VARIABLES
    now,              \* Date.now()
    aiInstance,       \* geminiService: whether the AI client exists
    characters,       \* App state: the character registry (an array)
    currentCharacter, \* App state: the active character, or NoChar
    messages,         \* App state: the chat log
    isLoading,        \* App state: the busy flag
    currentPage,      \* App state: "characterList" or "chat"
    chatRef,          \* App ref: the model-side chat session, or NoChat
    dbCharacters,     \* store "characters": id -> record
    dbChat,           \* store "chat_history": characterId -> messages
    dbQueue,          \* store requests issued and not yet answered, in order
    tasks,            \* the handler invocations: position and captured values
    nops,             \* how many handler invocations were started
    response,         \* what chat.sendMessage produced for the parser under test
    parsed            \* what getAIResponse returned for it

parseVars == <<response, parsed>>
appVars == <<now, aiInstance, characters, currentCharacter, messages, isLoading,
             currentPage, chatRef, dbCharacters, dbChat, dbQueue, tasks, nops>>
vars == <<appVars, parseVars>>

(* How many handler invocations a behaviour starts. *)
MaxOps == 3

-----------------------------------------------------------------------------
(* Text of a model reply.  A text is a sequence of lexemes; the lexemes    *)
(* are the units the parser's string operations and JSON.parse tell apart. *)

Tok(t, s, n) == [t |-> t, s |-> s, n |-> n]
Punct(s) == Tok("punct", s, 0)
StrLit(s) == Tok("str", s, 0)
NumLit(n) == Tok("num", "", n)
Lit(s) == Tok("lit", s, 0)
Word(s) == Tok("word", s, 0)
WS == Tok("ws", "", 0)
Fence == Tok("fence", "", 0)   \* three backquotes

(* JSON values as JSON.parse returns them. *)
JNull == [k |-> "null"]
JUndefined == [k |-> "undefined"]
JBool(b) == [k |-> "bool", b |-> b]
JNum(n) == [k |-> "num", n |-> n]
JStr(s) == [k |-> "str", s |-> s]
JArr(items) == [k |-> "arr", items |-> items]
JObj(m) == [k |-> "obj", m |-> m]

RECURSIVE TrimStart(_)
TrimStart(text) ==
    IF text # <<>> /\ Head(text) = WS THEN TrimStart(Tail(text)) ELSE text

RECURSIVE TrimEnd(_)
TrimEnd(text) ==
    IF text # <<>> /\ text[Len(text)] = WS
    THEN TrimEnd(SubSeq(text, 1, Len(text) - 1))
    ELSE text

Trim(text) == TrimEnd(TrimStart(text))

StartsWithJsonFence(text) ==
    Len(text) >= 2 /\ text[1] = Fence /\ text[2] = Word("json")

EndsWithFence(text) == text # <<>> /\ text[Len(text)] = Fence

ParseFail == [ok |-> FALSE, val |-> JNull, next |-> 0]
ParseOk(v, next) == [ok |-> TRUE, val |-> v, next |-> next]

IsPunct(toks, i, s) == i <= Len(toks) /\ toks[i] = Punct(s)

PutMember(m, key, v) ==
    [x \in (DOMAIN m) \cup {key} |-> IF x = key THEN v ELSE m[x]]

RECURSIVE ParseValue(_, _), ParseElems(_, _, _), ParseMembers(_, _, _)

ParseValue(toks, i) ==
    IF i > Len(toks) THEN ParseFail
    ELSE LET tk == toks[i] IN
         CASE tk.t = "lit" /\ tk.s = "null" -> ParseOk(JNull, i + 1)
           [] tk.t = "lit" /\ tk.s = "true" -> ParseOk(JBool(TRUE), i + 1)
           [] tk.t = "lit" /\ tk.s = "false" -> ParseOk(JBool(FALSE), i + 1)
           [] tk.t = "num" -> ParseOk(JNum(tk.n), i + 1)
           [] tk.t = "str" -> ParseOk(JStr(tk.s), i + 1)
           [] tk = Punct("[") ->
                IF IsPunct(toks, i + 1, "]") THEN ParseOk(JArr(<<>>), i + 2)
                ELSE ParseElems(toks, i + 1, <<>>)
           [] tk = Punct("{") ->
                IF IsPunct(toks, i + 1, "}") THEN ParseOk(JObj(<<>>), i + 2)
                ELSE ParseMembers(toks, i + 1, <<>>)
           [] OTHER -> ParseFail

ParseElems(toks, i, acc) ==
    LET e == ParseValue(toks, i) IN
    IF ~e.ok THEN ParseFail
    ELSE IF IsPunct(toks, e.next, ",")
         THEN ParseElems(toks, e.next + 1, Append(acc, e.val))
    ELSE IF IsPunct(toks, e.next, "]")
         THEN ParseOk(JArr(Append(acc, e.val)), e.next + 1)
    ELSE ParseFail

ParseMembers(toks, i, m) ==
    IF ~(i + 1 <= Len(toks) /\ toks[i].t = "str" /\ toks[i + 1] = Punct(":"))
    THEN ParseFail
    ELSE LET e == ParseValue(toks, i + 2) IN
         IF ~e.ok THEN ParseFail
         ELSE LET m2 == PutMember(m, toks[i].s, e.val) IN
              IF IsPunct(toks, e.next, ",")
              THEN ParseMembers(toks, e.next + 1, m2)
              ELSE IF IsPunct(toks, e.next, "}")
                   THEN ParseOk(JObj(m2), e.next + 1)
              ELSE ParseFail

(* JSON.parse: white space is allowed between lexemes, the whole text must *)
(* be one value; anything else is a SyntaxError.                           *)
JSONParse(text) ==
    LET toks == SelectSeq(text, LAMBDA tk : tk # WS)
        r == ParseValue(toks, 1)
    IN  IF r.ok /\ r.next = Len(toks) + 1
        THEN [threw |-> FALSE, val |-> r.val]
        ELSE [threw |-> TRUE, val |-> JNull]

(* value.key of JavaScript: a TypeError on null, undefined when absent. *)
GetProp(v, key) ==
    IF v.k = "null" THEN [threw |-> TRUE, val |-> JUndefined]
    ELSE IF v.k = "obj" /\ key \in DOMAIN v.m
         THEN [threw |-> FALSE, val |-> v.m[key]]
    ELSE [threw |-> FALSE, val |-> JUndefined]

TypeofString(v) == v.k = "str"
TypeofNumber(v) == v.k = "num"

ApologyText == "I'm sorry, I had trouble forming a response."

(* The fallback reply with indicatorValue: 0 in place of null. *)
FallbackReplyZeroIndicator ==
    [threw |-> FALSE, dialogue |-> JStr(ApologyText), emotion |-> JStr("sad"),
     indicatorValue |-> JNum(0)]

(* The fallback reply of the catch block of getAIResponse. *)
FallbackReply ==
    [threw |-> FALSE, dialogue |-> JStr(ApologyText), emotion |-> JStr("sad"),
     indicatorValue |-> JNull]

ThrownReply ==
    [threw |-> TRUE, dialogue |-> JUndefined, emotion |-> JUndefined,
     indicatorValue |-> JUndefined]

(* The fence stripping of getAIResponse. *)
StripFences(text) ==
    LET t1 == Trim(text)
        t2 == IF StartsWithJsonFence(t1) THEN SubSeq(t1, 3, Len(t1)) ELSE t1
    IN  IF EndsWithFence(t2) THEN SubSeq(t2, 1, Len(t2) - 1) ELSE t2

(* The body of the try block once the text is parsed: the field checks.   *)
ValidateReply(v) ==
    LET d == GetProp(v, "dialogue")
        e == GetProp(v, "emotion")
        iv == GetProp(v, "indicatorValue")
    IN  IF d.threw \/ e.threw THEN ThrownReply
        ELSE IF TypeofString(d.val) /\ TypeofString(e.val)
             THEN [threw |-> FALSE, dialogue |-> d.val, emotion |-> e.val,
                   indicatorValue |->
                       IF TypeofNumber(iv.val) THEN iv.val ELSE JNull]
        ELSE ThrownReply

(* Outcomes of chat.sendMessage: a response with a text, a response whose  *)
(* text is undefined, or a rejected promise.                               *)
TextResponse(text) == [kind |-> "text", text |-> text]
NoTextResponse == [kind |-> "notext", text |-> <<>>]
ErrorResponse == [kind |-> "error", text |-> <<>>]

(* The try block of getAIResponse; threw means control reaches the catch. *)
TryParse(resp) ==
    IF resp.kind # "text" THEN ThrownReply
    ELSE LET j == JSONParse(StripFences(resp.text)) IN
         IF j.threw THEN ThrownReply ELSE ValidateReply(j.val)

(* The catch block written as generateImage writes its own: log, rethrow. *)
CatchParseRethrows(r) == r

(* The catch block of getAIResponse. *)
CatchParse(r) == IF r.threw THEN FallbackReply ELSE r

getAIResponse(resp) == CatchParse(TryParse(resp))

-----------------------------------------------------------------------------
(* The replies the parser is exercised on: reply objects with each field   *)
(* absent, well typed or ill typed, texts that are no reply object, and   *)
(* each of them bare, padded with white space or inside a code fence.      *)

DialogueOpts == {<<>>, <<StrLit("hey!")>>, <<NumLit(5)>>}
EmotionOpts == {<<>>, <<StrLit("happy")>>, <<StrLit("")>>, <<Lit("null")>>}
IndicatorOpts ==
    {<<>>, <<NumLit(55)>>, <<NumLit(150)>>, <<NumLit(-5)>>, <<StrLit("55")>>,
     <<Lit("null")>>}

Member(key, opt) ==
    IF opt = <<>> THEN <<>> ELSE <<StrLit(key), Punct(":")>> \o opt

JoinMembers(a, b) ==
    IF a = <<>> THEN b ELSE IF b = <<>> THEN a ELSE a \o <<Punct(",")>> \o b

ObjectText(d, e, v) ==
    <<Punct("{")>>
    \o JoinMembers(Member("dialogue", d),
                   JoinMembers(Member("emotion", e), Member("indicatorValue", v)))
    \o <<Punct("}")>>

ObjectTexts ==
    {ObjectText(d, e, v) : d \in DialogueOpts, e \in EmotionOpts, v \in IndicatorOpts}

OtherTexts ==
    { <<>>,
      <<Word("not"), WS, Word("json")>>,
      <<Lit("null")>>,
      <<Lit("true")>>,
      <<NumLit(5)>>,
      <<StrLit("hey!")>>,
      <<Punct("["), Punct("]")>>,
      <<Punct("["), StrLit("hey!"), Punct(","), StrLit("happy"), Punct("]")>>,
      <<Punct("{")>>,
      <<Punct("{"), StrLit("dialogue"), Punct(":"), StrLit("hey!"), Punct(","),
        Punct("}")>>,
      <<Punct("{"), StrLit("dialogue"), Punct(":"), Punct("{"), Punct("}"),
        Punct(","), StrLit("emotion"), Punct(":"), StrLit("happy"), Punct("}")>>,
      <<Punct("{"), StrLit("dialogue"), Punct(":"), StrLit("hey!"), Punct(","),
        StrLit("emotion"), Punct(":"), StrLit("happy"), Punct("}"), Word("bye")>> }

Wrappers ==
    {"plain", "padded", "fenceJson", "fenceJsonPadded", "fenceJsonOpen",
     "fenceBare", "fenceOther"}

Wrap(w, body) ==
    CASE w = "plain" -> body
      [] w = "padded" -> <<WS>> \o body \o <<WS>>
      [] w = "fenceJson" -> <<Fence, Word("json"), WS>> \o body \o <<WS, Fence>>
      [] w = "fenceJsonPadded" ->
            <<WS, Fence, Word("json"), WS>> \o body \o <<WS, Fence, WS>>
      [] w = "fenceJsonOpen" -> <<Fence, Word("json"), WS>> \o body
      [] w = "fenceBare" -> <<Fence, WS>> \o body \o <<WS, Fence>>
      [] w = "fenceOther" -> <<Fence, Word("js"), WS>> \o body \o <<WS, Fence>>

RawTexts == {Wrap(w, b) : w \in Wrappers, b \in ObjectTexts \cup OtherTexts}

Responses ==
    {TextResponse(t) : t \in RawTexts} \cup {NoTextResponse, ErrorResponse}

-----------------------------------------------------------------------------
(* Characters, messages and the store.                                     *)

Absent == [absent |-> TRUE]          \* a field the record does not carry
NoChar == [id |-> ""]                \* currentCharacter === null
NoChat == [open |-> FALSE]           \* chatRef.current === null
NoTransform == Absent

Max(a, b) == IF a >= b THEN a ELSE b
Min(a, b) == IF a <= b THEN a ELSE b

(* Math.max(0, Math.min(100, v)) *)
ClampIndicator(v) == Max(0, Min(100, v))

UserName == "User"

(* The sprites object, by its keys in insertion order. *)
Sprites(keys) == [keys |-> keys]

StoredCharacter(greeting) ==
    [id |-> "c1", name |-> "Aiko", greeting |-> greeting,
     emotions |-> <<"happy", "neutral", "sad">>,
     sprites |-> Sprites(<<"happy", "neutral", "sad">>),
     indicator |-> [name |-> "Affection", value |-> 50],
     systemInstruction |-> "", transform |-> NoTransform]

Greetings == {"", "Welcome back!"}

IdOrder == <<"c1", "c2">>

EmptyStore == [x \in {} |-> Absent]
Put(store, key, v) ==
    [x \in (DOMAIN store) \cup {key} |-> IF x = key THEN v ELSE store[x]]
Delete(store, key) == [x \in (DOMAIN store) \ {key} |-> store[x]]

(* One put per record, in order. *)
RECURSIVE PutAll(_, _)
PutAll(store, recs) ==
    IF recs = <<>> THEN store
    ELSE PutAll(Put(store, Head(recs).id, Head(recs)), Tail(recs))

(* store.getAll(): the records in key order *)
GetAll(store) ==
    LET keys == SelectSeq(IdOrder, LAMBDA k : k \in DOMAIN store)
    IN  [i \in 1..Len(keys) |-> store[keys[i]]]

MsgId(t, suffix) == [t |-> t, s |-> suffix]
Message(id, sender, text, emotion) ==
    [id |-> id, sender |-> sender, text |-> text, emotion |-> emotion]

UserMessage(t, text) == Message(MsgId(t, "-user"), "user", text, "")

(* emotion || 'neutral', as the earlier App.tsx resolved it. *)
ResolveEmotionNeutral(emotion, char) ==
    IF emotion # "" THEN emotion ELSE "neutral"

(* emotion || currentCharacter.emotions[0] || 'neutral' *)
ResolveEmotion(emotion, char) ==
    IF emotion # "" THEN emotion
    ELSE IF char.emotions # <<>> /\ char.emotions[1] # "" THEN char.emotions[1]
    ELSE "neutral"

AiMessage(t, reply, char) ==
    Message(MsgId(t, "-ai"), "ai", reply.dialogue.s,
            ResolveEmotion(reply.emotion.s, char))

ErrorText == "Sorry, I encountered an error. Please try again."
ErrorMessage(t) == Message(MsgId(t, "-system"), "system", ErrorText, "")

SceneText == "Scene updated from uploaded image."
SceneMessage(t) == Message(MsgId(t, "-system"), "system", SceneText, "")

(* The generic greeting, whatever the character record says. *)
GreetingTextGeneric(char) == "Hello, User."

GreetingText(char) ==
    IF char.greeting # "" THEN char.greeting ELSE "Hello, User."
GreetingMessage(t, char) == Message(MsgId(t, ""), "ai", GreetingText(char), "happy")

(* userInput.trim() is empty *)
BlankTexts == {"", " "}
IsBlank(text) == text \in BlankTexts

(* Every message becomes a turn, the system messages too. *)
convertMessagesToHistoryUnfiltered(msgs) ==
    [i \in 1..Len(msgs) |->
        [role |-> IF msgs[i].sender = "user" THEN "user" ELSE "model",
         text |-> msgs[i].text]]

convertMessagesToHistory(msgs) ==
    LET kept == SelectSeq(msgs, LAMBDA m : m.sender = "user" \/ m.sender = "ai")
    IN  [i \in 1..Len(kept) |->
            [role |-> IF kept[i].sender = "user" THEN "user" ELSE "model",
             text |-> kept[i].text]]

(* The system instruction after the placeholders are replaced: the         *)
(* template and the values substituted into it.                            *)
RenderInstruction(char) ==
    [template |-> IF char.systemInstruction # "" THEN char.systemInstruction
                  ELSE "default",
     name |-> char.name,
     indicatorName |-> char.indicator.name,
     indicatorValue |-> char.indicator.value,
     emotions |-> char.emotions,
     userName |-> UserName]

(* chatRef.current after initializeChat(char, history) *)
initializeChat(char, history) ==
    IF ~aiInstance THEN chatRef
    ELSE [open |-> TRUE, systemInstruction |-> RenderInstruction(char),
          history |-> convertMessagesToHistory(history)]

(* emotions missing, no array or empty: the record carries <<>> *)
NeedsEmotions(char) == char.emotions = <<>>

(* The migration without the fallback label: the emotions are the sprite  *)
(* keys, however many there are.                                           *)
MigrateWithoutFallback(char) ==
    LET keys == IF char.sprites = Absent THEN <<>> ELSE char.sprites.keys
        c1 == IF NeedsEmotions(char) THEN [char EXCEPT !.emotions = keys]
              ELSE char
    IN  IF c1.indicator = Absent
        THEN [c1 EXCEPT !.indicator = [name |-> "Affection", value |-> 50]]
        ELSE c1

(* The migration of loadData, for one stored record. *)
Migrate(char) ==
    LET keys == IF char.sprites = Absent THEN <<>> ELSE char.sprites.keys
        c1 == IF NeedsEmotions(char)
              THEN [char EXCEPT !.emotions =
                        IF keys = <<>> THEN <<"neutral">> ELSE keys]
              ELSE char
    IN  IF c1.indicator = Absent
        THEN [c1 EXCEPT !.indicator = [name |-> "Affection", value |-> 50]]
        ELSE c1

(* needsUpdate of loadData: one of the two rules applies to the record. *)
NeedsUpdate(char) == NeedsEmotions(char) \/ char.indicator = Absent

(* charactersToUpdate of loadData: the migrated form of the records that   *)
(* needed an update, in the order read.                                     *)
charactersToUpdate(stored) ==
    LET affected == SelectSeq(stored, NeedsUpdate)
    IN  [i \in 1..Len(affected) |-> Migrate(affected[i])]

(* The back-fill of handleImportCharacters, for one qualifying record. *)
ImportFixup(char) ==
    LET c1 == IF char.indicator = Absent
              THEN [char EXCEPT !.indicator = [name |-> "Affection", value |-> 50]]
              ELSE char
    IN  IF NeedsEmotions(c1) THEN [c1 EXCEPT !.emotions = c1.sprites.keys] ELSE c1

(* The filter without its test of the name. *)
QualifiesUnnamed(rec) == rec.id # "" /\ rec.sprites # Absent

(* c && c.id && c.name && c.sprites *)
Qualifies(rec) == rec.id # "" /\ rec.name # "" /\ rec.sprites # Absent

ImportRecord(id, name, sprites, emotions, indicator) ==
    [id |-> id, name |-> name, greeting |-> "", emotions |-> emotions,
     sprites |-> sprites, indicator |-> indicator, systemInstruction |-> "",
     transform |-> NoTransform]

NotAnArray == [array |-> FALSE, items |-> <<>>]
ArrayOf(items) == [array |-> TRUE, items |-> items]

ImportBatches ==
    { NotAnArray,
      ArrayOf(<<ImportRecord("c2", "Mika", Absent, <<>>, Absent)>>),
      ArrayOf(<<ImportRecord("c2", "Mika", Sprites(<<"happy">>), <<>>,
                             [name |-> "Trust", value |-> 150]),
                ImportRecord("c3", "", Sprites(<<"happy">>), <<"happy">>, Absent)>>) }

(* characters.map(c => c.id === updated.id ? updated : c) *)
ReplaceById(chars, updated) ==
    [i \in 1..Len(chars) |-> IF chars[i].id = updated.id THEN updated ELSE chars[i]]

Range(f) == {f[i] : i \in DOMAIN f}

(* messages.findIndex(m => m.id === id), 0 when there is none *)
FindIndex(msgs, id) ==
    IF \E i \in 1..Len(msgs) : msgs[i].id = id
    THEN CHOOSE i \in 1..Len(msgs) :
            msgs[i].id = id /\ \A j \in 1..(i - 1) : msgs[j].id # id
    ELSE 0

(* msgs.findLast(m => m.sender === 'user'), Absent when there is none *)
FindLastUser(msgs) ==
    IF \E i \in 1..Len(msgs) : msgs[i].sender = "user"
    THEN msgs[CHOOSE i \in 1..Len(msgs) :
                 msgs[i].sender = "user"
                 /\ \A j \in (i + 1)..Len(msgs) : msgs[j].sender # "user"]
    ELSE Absent

-----------------------------------------------------------------------------
(* Handler invocations.  A handler runs to its next await in one step; it  *)
(* keeps the values its closure captured when the event was dispatched.    *)

IdleTask ==
    [kind |-> "none", pc |-> "idle", char |-> NoChar, captured |-> <<>>,
     msgs |-> <<>>, final |-> <<>>, userInput |-> "", isRegeneration |-> FALSE,
     called |-> FALSE, resp |-> ErrorResponse, reply |-> ThrownReply,
     updated |-> NoChar, batch |-> <<>>, storeFailed |-> FALSE,
     messageId |-> Absent, newValue |-> 0,
     importedData |-> [array |-> FALSE, items |-> <<>>]]

Ops == 1..MaxOps

Finished(t) == tasks[t].pc \in {"idle", "done", "threw"}
Quiet == \A t \in Ops : Finished(t)

(* The object store a pending request of the task goes to. *)
StoreOf(pc) ==
    IF pc \in {"sendSaveChar", "importGetAll", "importSave", "importReload",
              "settingsSaveChar", "transformSave", "overrideSave",
              "appSettingsLoad", "deleteCharDb"}
    THEN "characters"
    ELSE IF pc = "appSettingsPut" THEN "settings" ELSE "chat_history"

(* Requests on one object store are answered in the order they were made. *)
CanComplete(t) ==
    \E i \in 1..Len(dbQueue) :
        /\ dbQueue[i] = t
        /\ \A j \in 1..(i - 1) :
              StoreOf(tasks[dbQueue[j]].pc) # StoreOf(tasks[t].pc)

Dequeue(t) == SelectSeq(dbQueue, LAMBDA x : x # t)
Requeue(t) == Append(Dequeue(t), t)

At(t, pc) == tasks[t].pc = pc /\ CanComplete(t)

(* Render conditions of the two pages. *)
ListPageShown == ~isLoading /\ aiInstance /\ currentPage = "characterList"
ChatShown == currentPage = "chat" /\ currentCharacter # NoChar

Start(task) ==
    /\ nops < MaxOps
    /\ nops' = nops + 1
    /\ tasks' = [tasks EXCEPT ![nops + 1] = task]

-----------------------------------------------------------------------------
(* Start-up.                                                                *)

SendTexts == {"hi", " "}
EditTexts == {"edited"}

(* What the model client can answer in a session. *)
SessionResponses ==
    { TextResponse(ObjectText(<<StrLit("hey!")>>, <<StrLit("happy")>>, <<NumLit(55)>>)),
      TextResponse(Wrap("fenceJson",
          ObjectText(<<StrLit("hey!")>>, <<StrLit("")>>, <<NumLit(150)>>))),
      TextResponse(ObjectText(<<StrLit("hey!")>>, <<StrLit("happy")>>, <<NumLit(-5)>>)),
      TextResponse(ObjectText(<<StrLit("hey!")>>, <<StrLit("happy")>>, <<>>)),
      TextResponse(<<Word("not"), WS, Word("json")>>),
      ErrorResponse }

(* The answers kept when handlers interleave: a reply that moves the       *)
(* indicator, one that carries none, and a failed call.                     *)
InterleavedResponses ==
    { TextResponse(ObjectText(<<StrLit("hey!")>>, <<StrLit("happy")>>, <<NumLit(55)>>)),
      TextResponse(ObjectText(<<StrLit("hey!")>>, <<StrLit("happy")>>, <<>>)),
      ErrorResponse }

InitApp(greetings) ==
    /\ now = 0
    /\ aiInstance = FALSE
    /\ characters = <<>>
    /\ currentCharacter = NoChar
    /\ messages = <<>>
    /\ isLoading = TRUE
    /\ currentPage = "characterList"
    /\ chatRef = NoChat
    /\ \E g \in greetings : dbCharacters = Put(EmptyStore, "c1", StoredCharacter(g))
    /\ dbChat = EmptyStore
    /\ dbQueue = <<>>
    /\ tasks = [t \in Ops |-> IdleTask]
    /\ nops = 0

ParserUnused ==
    /\ response = ErrorResponse
    /\ parsed = [done |-> TRUE, reply |-> FallbackReply]

(* The app as constructed, over a store holding one character. *)
Init == InitApp({"Welcome back!"}) /\ ParserUnused

(* The same; the stored character may have no greeting. *)
InitSeq == InitApp(Greetings) /\ ParserUnused

(* loadData with a stored API key: initializeAI, getAllCharacters, the     *)
(* migration, the write-back of the migrated records, setCharacters.       *)
LoadData ==
    /\ isLoading /\ nops = 0 /\ ~aiInstance
    /\ aiInstance' = TRUE
    /\ LET stored == GetAll(dbCharacters)
           migrated == [i \in 1..Len(stored) |-> Migrate(stored[i])]
       IN  /\ dbCharacters' = PutAll(dbCharacters, charactersToUpdate(stored))
           /\ characters' = migrated
    /\ isLoading' = FALSE
    /\ UNCHANGED <<now, currentCharacter, messages, currentPage, chatRef, dbChat,
                   dbQueue, tasks, nops, parseVars>>

-----------------------------------------------------------------------------
(* handleSendMessage                                                        *)

(* The guard without its first disjunct. *)
SendRejectedUntrimmed(userInput) ==
    chatRef = NoChat \/ isLoading \/ currentCharacter = NoChar

(* The guard of handleSendMessage, as a non-regeneration call sees it. *)
SendRejected(userInput) ==
    IsBlank(userInput) \/ chatRef = NoChat \/ isLoading
    \/ currentCharacter = NoChar

(* The event: the guard, the user message, setMessages, saveChatHistory.   *)
handleSendMessage(userInput) ==
    /\ ChatShown
    /\ IF SendRejected(userInput)
       THEN UNCHANGED vars
       ELSE LET messagesForAI == Append(messages, UserMessage(now, userInput))
            IN  /\ Start([IdleTask EXCEPT
                            !.kind = "send", !.pc = "sendSaveUser",
                            !.char = currentCharacter, !.captured = messages,
                            !.msgs = messagesForAI, !.userInput = userInput])
                /\ messages' = messagesForAI
                /\ now' = now + 1
                /\ dbQueue' = Append(dbQueue, nops + 1)
                /\ UNCHANGED <<aiInstance, characters, currentCharacter, isLoading,
                               currentPage, chatRef, dbCharacters, dbChat, parseVars>>

(* saveChatHistory not awaited: getAIResponse is called while the write   *)
(* of the user message is still queued.                                     *)
SendUserNotAwaited(t) ==
    /\ tasks[t].pc = "sendSaveUser"
    /\ dbQueue' = Dequeue(t)
    /\ isLoading' = TRUE
    /\ tasks' = [tasks EXCEPT ![t].pc = "awaitModel",
                              ![t].called = (chatRef # NoChat)]
    /\ UNCHANGED <<now, aiInstance, characters, currentCharacter, messages,
                   currentPage, chatRef, dbCharacters, dbChat, nops, parseVars>>

(* The user message is stored; setIsLoading(true); getAIResponse is called *)
(* with chatRef.current (a null chat makes sendMessage throw at once).      *)
SendUserSaved(t) ==
    /\ At(t, "sendSaveUser")
    /\ dbChat' = Put(dbChat, tasks[t].char.id, tasks[t].msgs)
    /\ dbQueue' = Dequeue(t)
    /\ isLoading' = TRUE
    /\ tasks' = [tasks EXCEPT ![t].pc = "awaitModel",
                              ![t].called = (chatRef # NoChat)]
    /\ UNCHANGED <<now, aiInstance, characters, currentCharacter, messages,
                   currentPage, chatRef, dbCharacters, nops, parseVars>>

(* saveChatHistory of the user message rejects: the handler's promise      *)
(* rejects before the try block is entered.                                 *)
SendUserSaveFails(t) ==
    /\ At(t, "sendSaveUser")
    /\ dbQueue' = Dequeue(t)
    /\ tasks' = [tasks EXCEPT ![t].pc = "threw", ![t].storeFailed = TRUE]
    /\ UNCHANGED <<now, aiInstance, characters, currentCharacter, messages,
                   isLoading, currentPage, chatRef, dbCharacters, dbChat, nops,
                   parseVars>>

(* The catch block of handleSendMessage: the system message is appended to *)
(* messagesForAI and stored.                                                *)
SendCatch(t, failed) ==
    LET finalMessages == Append(tasks[t].msgs, ErrorMessage(now))
    IN  /\ messages' = finalMessages
        /\ now' = now + 1
        /\ dbQueue' = Requeue(t)
        /\ tasks' = [tasks EXCEPT ![t].pc = "sendSaveError",
                                  ![t].final = finalMessages,
                                  ![t].storeFailed = failed]
        /\ UNCHANGED <<aiInstance, characters, currentCharacter, isLoading,
                       currentPage, chatRef, dbCharacters, dbChat, nops, parseVars>>

(* getAIResponse returns: the ai message, setMessages, saveChatHistory.     *)
SendReplyArrives(t, resp) ==
    LET reply == getAIResponse(resp)
        finalMessages == Append(tasks[t].msgs, AiMessage(now, reply, tasks[t].char))
    IN  IF reply.threw
        THEN /\ SendCatch(t, tasks[t].storeFailed)
        ELSE /\ messages' = finalMessages
             /\ now' = now + 1
             /\ dbQueue' = Append(dbQueue, t)
             /\ tasks' = [tasks EXCEPT ![t].pc = "sendSaveFinal",
                                       ![t].final = finalMessages,
                                       ![t].resp = resp, ![t].reply = reply]
             /\ UNCHANGED <<aiInstance, characters, currentCharacter, isLoading,
                            currentPage, chatRef, dbCharacters, dbChat, nops,
                            parseVars>>

ModelReplies(t, responses) ==
    /\ tasks[t].pc = "awaitModel"
    /\ \E resp \in responses :
          /\ tasks[t].called \/ resp = ErrorResponse
          /\ SendReplyArrives(t, resp)

(* The final log is stored; the indicator update, or the finally block.     *)
SendFinalSaved(t) ==
    /\ At(t, "sendSaveFinal")
    /\ dbChat' = Put(dbChat, tasks[t].char.id, tasks[t].final)
    /\ IF tasks[t].reply.indicatorValue # JNull
       THEN LET newIndicatorValue == ClampIndicator(tasks[t].reply.indicatorValue.n)
                updatedCharacter ==
                    [tasks[t].char EXCEPT !.indicator.value = newIndicatorValue]
            IN  /\ currentCharacter' = updatedCharacter
                /\ dbQueue' = Requeue(t)
                /\ tasks' = [tasks EXCEPT ![t].pc = "sendSaveChar",
                                          ![t].updated = updatedCharacter]
                /\ UNCHANGED isLoading
       ELSE /\ isLoading' = FALSE
            /\ dbQueue' = Dequeue(t)
            /\ tasks' = [tasks EXCEPT ![t].pc = "done"]
            /\ UNCHANGED currentCharacter
    /\ UNCHANGED <<now, aiInstance, characters, messages, currentPage, chatRef,
                   dbCharacters, nops, parseVars>>

SendFinalSaveFails(t) ==
    /\ At(t, "sendSaveFinal")
    /\ SendCatch(t, TRUE)

(* saveCharacter resolves; setCharacters; finally. *)
(* The handler returns without its finally block. *)
SendCharSavedKeepsLoading(t) ==
    /\ At(t, "sendSaveChar")
    /\ dbCharacters' = Put(dbCharacters, tasks[t].updated.id, tasks[t].updated)
    /\ characters' = ReplaceById(characters, tasks[t].updated)
    /\ dbQueue' = Dequeue(t)
    /\ tasks' = [tasks EXCEPT ![t].pc = "done"]
    /\ UNCHANGED <<now, aiInstance, currentCharacter, messages, currentPage,
                   chatRef, dbChat, nops, isLoading, parseVars>>

SendCharSaved(t) ==
    /\ At(t, "sendSaveChar")
    /\ dbCharacters' = Put(dbCharacters, tasks[t].updated.id, tasks[t].updated)
    /\ characters' = ReplaceById(characters, tasks[t].updated)
    /\ isLoading' = FALSE
    /\ dbQueue' = Dequeue(t)
    /\ tasks' = [tasks EXCEPT ![t].pc = "done"]
    /\ UNCHANGED <<now, aiInstance, currentCharacter, messages, currentPage,
                   chatRef, dbChat, nops, parseVars>>

SendCharSaveFails(t) ==
    /\ At(t, "sendSaveChar")
    /\ SendCatch(t, TRUE)

(* The write of the catch block resolves; finally. *)
SendErrorSaved(t) ==
    /\ At(t, "sendSaveError")
    /\ dbChat' = Put(dbChat, tasks[t].char.id, tasks[t].final)
    /\ isLoading' = FALSE
    /\ dbQueue' = Dequeue(t)
    /\ tasks' = [tasks EXCEPT ![t].pc = "done"]
    /\ UNCHANGED <<now, aiInstance, characters, currentCharacter, messages,
                   currentPage, chatRef, dbCharacters, nops, parseVars>>

(* The write of the catch block rejects; finally; the promise rejects. *)
SendErrorSaveFails(t) ==
    /\ At(t, "sendSaveError")
    /\ isLoading' = FALSE
    /\ dbQueue' = Dequeue(t)
    /\ tasks' = [tasks EXCEPT ![t].pc = "threw", ![t].storeFailed = TRUE]
    /\ UNCHANGED <<now, aiInstance, characters, currentCharacter, messages,
                   currentPage, chatRef, dbCharacters, dbChat, nops, parseVars>>

-----------------------------------------------------------------------------
(* handleSelectCharacter and handleBackToCharacterList                      *)

handleSelectCharacter(character) ==
    /\ ListPageShown
    /\ Start([IdleTask EXCEPT !.kind = "select", !.pc = "selectGet",
                              !.char = character, !.captured = messages])
    /\ isLoading' = TRUE
    /\ currentCharacter' = character
    /\ dbQueue' = Append(dbQueue, nops + 1)
    /\ UNCHANGED <<now, aiInstance, characters, messages, currentPage, chatRef,
                   dbCharacters, dbChat, parseVars>>

(* getChatHistory resolves: initializeChat, then the stored history or the *)
(* greeting seed and its write.                                             *)
SelectLoaded(t) ==
    /\ At(t, "selectGet")
    /\ LET character == tasks[t].char
           history == IF character.id \in DOMAIN dbChat
                      THEN dbChat[character.id] ELSE <<>>
           firstMessage == GreetingMessage(now, character)
       IN  /\ chatRef' = initializeChat(character, history)
           /\ IF history # <<>>
              THEN /\ messages' = history
                   /\ currentPage' = "chat"
                   /\ isLoading' = FALSE
                   /\ dbQueue' = Dequeue(t)
                   /\ tasks' = [tasks EXCEPT ![t].pc = "done"]
                   /\ UNCHANGED now
              ELSE /\ messages' = <<firstMessage>>
                   /\ now' = now + 1
                   /\ dbQueue' = Requeue(t)
                   /\ tasks' = [tasks EXCEPT ![t].pc = "selectSave",
                                             ![t].msgs = <<firstMessage>>]
                   /\ UNCHANGED <<currentPage, isLoading>>
    /\ UNCHANGED <<aiInstance, characters, currentCharacter, dbCharacters, dbChat,
                   nops, parseVars>>

(* A rejected store request inside the try block: catch, finally. *)
SelectFails(t) ==
    /\ At(t, "selectGet") \/ At(t, "selectSave")
    /\ isLoading' = FALSE
    /\ dbQueue' = Dequeue(t)
    /\ tasks' = [tasks EXCEPT ![t].pc = "done", ![t].storeFailed = TRUE]
    /\ UNCHANGED <<now, aiInstance, characters, currentCharacter, messages,
                   currentPage, chatRef, dbCharacters, dbChat, nops, parseVars>>

SelectSaved(t) ==
    /\ At(t, "selectSave")
    /\ dbChat' = Put(dbChat, tasks[t].char.id, tasks[t].msgs)
    /\ chatRef' = initializeChat(tasks[t].char, tasks[t].msgs)
    /\ currentPage' = "chat"
    /\ isLoading' = FALSE
    /\ dbQueue' = Dequeue(t)
    /\ tasks' = [tasks EXCEPT ![t].pc = "done"]
    /\ UNCHANGED <<now, aiInstance, characters, currentCharacter, messages,
                   dbCharacters, nops, parseVars>>

(* The popstate listener. *)
handleBackToCharacterList ==
    /\ currentPage = "chat"
    /\ currentCharacter' = NoChar
    /\ messages' = <<>>
    /\ chatRef' = NoChat
    /\ currentPage' = "characterList"
    /\ UNCHANGED <<now, aiInstance, characters, isLoading, dbCharacters, dbChat,
                   dbQueue, tasks, nops, parseVars>>

-----------------------------------------------------------------------------
(* handleRegenerate                                                         *)

handleRegenerate ==
    /\ ChatShown
    /\ LET lastIsAi == messages # <<>> /\ messages[Len(messages)].sender = "ai"
           messagesWithoutLastAI == SubSeq(messages, 1, Len(messages) - 1)
           lastUserMessage == FindLastUser(messagesWithoutLastAI)
       IN  IF isLoading \/ currentCharacter = NoChar \/ ~lastIsAi
              \/ lastUserMessage = Absent
           THEN UNCHANGED vars
           ELSE /\ Start([IdleTask EXCEPT
                            !.kind = "regenerate", !.pc = "regenSave",
                            !.char = currentCharacter, !.captured = messages,
                            !.msgs = messagesWithoutLastAI,
                            !.userInput = lastUserMessage.text,
                            !.isRegeneration = TRUE])
                /\ messages' = messagesWithoutLastAI
                /\ dbQueue' = Append(dbQueue, nops + 1)
                /\ UNCHANGED <<now, aiInstance, characters, currentCharacter,
                               isLoading, currentPage, chatRef, dbCharacters,
                               dbChat, parseVars>>

(* The log handleSendMessage(text, true) starts from when handleRegenerate *)
(* calls it: the messages of the render both closures were created in.      *)
RegenerationBase(t) == tasks[t].captured

(* The truncated log is stored; initializeChat; handleSendMessage(text,     *)
(* true) of the same render runs up to its call of getAIResponse.           *)
RegenSaved(t) ==
    /\ At(t, "regenSave")
    /\ dbChat' = Put(dbChat, tasks[t].char.id, tasks[t].msgs)
    /\ chatRef' = initializeChat(tasks[t].char, tasks[t].msgs)
    /\ dbQueue' = Dequeue(t)
    /\ IF IsBlank(tasks[t].userInput) \/ chatRef' = NoChat
       THEN /\ tasks' = [tasks EXCEPT ![t].pc = "done"]
            /\ UNCHANGED isLoading
       ELSE /\ isLoading' = TRUE
            /\ tasks' = [tasks EXCEPT ![t].pc = "awaitModel",
                                      ![t].msgs = RegenerationBase(t),
                                      ![t].called = TRUE]
    /\ UNCHANGED <<now, aiInstance, characters, currentCharacter, messages,
                   currentPage, dbCharacters, nops, parseVars>>

(* A rejected write outside any try block: the handler's promise rejects.  *)
WriteRejects(t) ==
    /\ \E pc \in {"regenSave", "deleteSave", "editSave", "uploadSave",
                  "transformSave"} : At(t, pc)
    /\ dbQueue' = Dequeue(t)
    /\ tasks' = [tasks EXCEPT ![t].pc = "threw", ![t].storeFailed = TRUE]
    /\ UNCHANGED <<now, aiInstance, characters, currentCharacter, messages,
                   isLoading, currentPage, chatRef, dbCharacters, dbChat, nops,
                   parseVars>>

-----------------------------------------------------------------------------
(* handleDeleteMessage, handleEditMessage                                   *)

(* messages.slice(0, messageIndex + 1), the message itself kept *)
DeletedLogInclusive(msgs, messageIndex) == SubSeq(msgs, 1, messageIndex)

(* messages.slice(0, messageIndex), with indices counted from 1 *)
DeletedLog(msgs, messageIndex) == SubSeq(msgs, 1, messageIndex - 1)

(* The whole log with the text replaced, nothing cut off. *)
EditedLogKeepsTail(msgs, messageIndex, newText) ==
    [msgs EXCEPT ![messageIndex].text = newText]

(* messages.slice(0, messageIndex + 1) with the text of the last replaced *)
EditedLog(msgs, messageIndex, newText) ==
    [SubSeq(msgs, 1, messageIndex) EXCEPT ![messageIndex].text = newText]

handleDeleteMessage(messageId) ==
    /\ ChatShown
    /\ LET messageIndex == FindIndex(messages, messageId)
           newMessages == DeletedLog(messages, messageIndex)
       IN  IF currentCharacter = NoChar \/ messageIndex = 0
           THEN UNCHANGED vars
           ELSE /\ Start([IdleTask EXCEPT
                            !.kind = "delete", !.pc = "deleteSave",
                            !.char = currentCharacter, !.captured = messages,
                            !.msgs = newMessages, !.messageId = messageId])
                /\ messages' = newMessages
                /\ dbQueue' = Append(dbQueue, nops + 1)
                /\ UNCHANGED <<now, aiInstance, characters, currentCharacter,
                               isLoading, currentPage, chatRef, dbCharacters,
                               dbChat, parseVars>>

handleEditMessage(messageId, newText) ==
    /\ ChatShown
    /\ LET messageIndex == FindIndex(messages, messageId)
           newMessages == EditedLog(messages, messageIndex, newText)
       IN  IF currentCharacter = NoChar \/ messageIndex = 0
           THEN UNCHANGED vars
           ELSE /\ Start([IdleTask EXCEPT
                            !.kind = "edit", !.pc = "editSave",
                            !.char = currentCharacter, !.captured = messages,
                            !.msgs = newMessages, !.userInput = newText,
                            !.messageId = messageId])
                /\ messages' = newMessages
                /\ dbQueue' = Append(dbQueue, nops + 1)
                /\ UNCHANGED <<now, aiInstance, characters, currentCharacter,
                               isLoading, currentPage, chatRef, dbCharacters,
                               dbChat, parseVars>>

(* The rolled-back log is stored; initializeChat; the alert. *)
RollbackSaved(t) ==
    /\ At(t, "deleteSave") \/ At(t, "editSave")
    /\ dbChat' = Put(dbChat, tasks[t].char.id, tasks[t].msgs)
    /\ chatRef' = initializeChat(tasks[t].char, tasks[t].msgs)
    /\ dbQueue' = Dequeue(t)
    /\ tasks' = [tasks EXCEPT ![t].pc = "done"]
    /\ UNCHANGED <<now, aiInstance, characters, currentCharacter, messages,
                   isLoading, currentPage, dbCharacters, nops, parseVars>>

-----------------------------------------------------------------------------
(* handleNewChat (the confirm dialog answered yes)                          *)

handleNewChat ==
    /\ ChatShown
    /\ Start([IdleTask EXCEPT !.kind = "newChat", !.pc = "newChatDelete",
                              !.char = currentCharacter, !.captured = messages])
    /\ isLoading' = TRUE
    /\ dbQueue' = Append(dbQueue, nops + 1)
    /\ UNCHANGED <<now, aiInstance, characters, currentCharacter, messages,
                   currentPage, chatRef, dbCharacters, dbChat, parseVars>>

(* The greeting appended to the log in place of replacing it. *)
NewChatDeletedKeepsLog(t) ==
    /\ At(t, "newChatDelete")
    /\ LET firstMessage == GreetingMessage(now, tasks[t].char)
       IN  /\ dbChat' = Delete(dbChat, tasks[t].char.id)
           /\ messages' = Append(messages, firstMessage)
           /\ now' = now + 1
           /\ dbQueue' = Requeue(t)
           /\ tasks' = [tasks EXCEPT ![t].pc = "newChatSave",
                                     ![t].msgs = Append(messages, firstMessage)]
    /\ UNCHANGED <<aiInstance, characters, currentCharacter, isLoading,
                   currentPage, chatRef, dbCharacters, nops, parseVars>>

(* deleteChatHistory resolves: the greeting seed, setMessages, its write.  *)
NewChatDeleted(t) ==
    /\ At(t, "newChatDelete")
    /\ LET firstMessage == GreetingMessage(now, tasks[t].char)
       IN  /\ dbChat' = Delete(dbChat, tasks[t].char.id)
           /\ messages' = <<firstMessage>>
           /\ now' = now + 1
           /\ dbQueue' = Requeue(t)
           /\ tasks' = [tasks EXCEPT ![t].pc = "newChatSave",
                                     ![t].msgs = <<firstMessage>>]
    /\ UNCHANGED <<aiInstance, characters, currentCharacter, isLoading,
                   currentPage, chatRef, dbCharacters, nops, parseVars>>

NewChatSaved(t) ==
    /\ At(t, "newChatSave")
    /\ dbChat' = Put(dbChat, tasks[t].char.id, tasks[t].msgs)
    /\ chatRef' = initializeChat(tasks[t].char, tasks[t].msgs)
    /\ isLoading' = FALSE
    /\ dbQueue' = Dequeue(t)
    /\ tasks' = [tasks EXCEPT ![t].pc = "done"]
    /\ UNCHANGED <<now, aiInstance, characters, currentCharacter, messages,
                   currentPage, dbCharacters, nops, parseVars>>

(* A rejected store request inside the try block: catch, alert, finally. *)
NewChatFails(t) ==
    /\ At(t, "newChatDelete") \/ At(t, "newChatSave")
    /\ isLoading' = FALSE
    /\ dbQueue' = Dequeue(t)
    /\ tasks' = [tasks EXCEPT ![t].pc = "done", ![t].storeFailed = TRUE]
    /\ UNCHANGED <<now, aiInstance, characters, currentCharacter, messages,
                   currentPage, chatRef, dbCharacters, dbChat, nops, parseVars>>

-----------------------------------------------------------------------------
(* handleSetSceneFromUpload                                                 *)

handleSetSceneFromUpload ==
    /\ ChatShown
    /\ LET newMessages == Append(messages, SceneMessage(now))
       IN  /\ Start([IdleTask EXCEPT !.kind = "upload", !.pc = "uploadSave",
                                     !.char = currentCharacter,
                                     !.captured = messages, !.msgs = newMessages])
           /\ messages' = newMessages
           /\ now' = now + 1
           /\ dbQueue' = Append(dbQueue, nops + 1)
    /\ UNCHANGED <<aiInstance, characters, currentCharacter, isLoading,
                   currentPage, chatRef, dbCharacters, dbChat, parseVars>>

UploadSaved(t) ==
    /\ At(t, "uploadSave")
    /\ dbChat' = Put(dbChat, tasks[t].char.id, tasks[t].msgs)
    /\ dbQueue' = Dequeue(t)
    /\ tasks' = [tasks EXCEPT ![t].pc = "done"]
    /\ UNCHANGED <<now, aiInstance, characters, currentCharacter, messages,
                   isLoading, currentPage, chatRef, dbCharacters, nops, parseVars>>

-----------------------------------------------------------------------------
(* handleImportCharacters                                                   *)

(* A batch that is no array or holds no qualifying record throws inside    *)
(* the try block: setIsLoading(true) and the finally block cancel out.      *)
handleImportCharacters(importedData) ==
    /\ ListPageShown
    /\ LET charactersToImport == SelectSeq(importedData.items, Qualifies)
       IN  IF ~importedData.array \/ charactersToImport = <<>>
           THEN UNCHANGED vars
           ELSE /\ Start([IdleTask EXCEPT !.kind = "import", !.pc = "importGetAll",
                                          !.captured = messages,
                                          !.importedData = importedData,
                                          !.batch = charactersToImport])
                /\ isLoading' = TRUE
                /\ dbQueue' = Append(dbQueue, nops + 1)
                /\ UNCHANGED <<now, aiInstance, characters, currentCharacter,
                               messages, currentPage, chatRef, dbCharacters,
                               dbChat, parseVars>>

(* getAllCharacters resolves; one saveCharacter per record is issued. *)
ImportGotAll(t) ==
    /\ At(t, "importGetAll")
    /\ dbQueue' = Requeue(t)
    /\ tasks' = [tasks EXCEPT ![t].pc = "importSave"]
    /\ UNCHANGED <<now, aiInstance, characters, currentCharacter, messages,
                   isLoading, currentPage, chatRef, dbCharacters, dbChat, nops,
                   parseVars>>

(* Every saveCharacter resolves; getAllCharacters is issued. *)
ImportSaved(t) ==
    /\ At(t, "importSave")
    /\ LET toSave == [i \in 1..Len(tasks[t].batch) |-> ImportFixup(tasks[t].batch[i])]
       IN  dbCharacters' = PutAll(dbCharacters, toSave)
    /\ dbQueue' = Requeue(t)
    /\ tasks' = [tasks EXCEPT ![t].pc = "importReload"]
    /\ UNCHANGED <<now, aiInstance, characters, currentCharacter, messages,
                   isLoading, currentPage, chatRef, dbChat, nops, parseVars>>

(* The reload resolves: setCharacters, the alert, finally. *)
ImportReloaded(t) ==
    /\ At(t, "importReload")
    /\ characters' = GetAll(dbCharacters)
    /\ isLoading' = FALSE
    /\ dbQueue' = Dequeue(t)
    /\ tasks' = [tasks EXCEPT ![t].pc = "done"]
    /\ UNCHANGED <<now, aiInstance, currentCharacter, messages, currentPage,
                   chatRef, dbCharacters, dbChat, nops, parseVars>>

(* A read rejects, or some of the writes reject (the others are applied):  *)
(* catch, alert, finally.                                                   *)
ImportFails(t) ==
    /\ \E pc \in {"importGetAll", "importSave", "importReload"} : At(t, pc)
    /\ IF tasks[t].pc = "importSave"
       THEN \E rejected \in (SUBSET (1..Len(tasks[t].batch))) \ {{}} :
               LET kept == SelectSeq(
                       [i \in 1..Len(tasks[t].batch) |->
                           [i |-> i, rec |-> ImportFixup(tasks[t].batch[i])]],
                       LAMBDA e : e.i \notin rejected)
               IN  dbCharacters' =
                       PutAll(dbCharacters, [i \in 1..Len(kept) |-> kept[i].rec])
       ELSE UNCHANGED dbCharacters
    /\ isLoading' = FALSE
    /\ dbQueue' = Dequeue(t)
    /\ tasks' = [tasks EXCEPT ![t].pc = "done", ![t].storeFailed = TRUE]
    /\ UNCHANGED <<now, aiInstance, characters, currentCharacter, messages,
                   currentPage, chatRef, dbChat, nops, parseVars>>

-----------------------------------------------------------------------------
(* handleSaveChatSettings                                                   *)

Instructions == {"Answer in one sentence."}

handleSaveChatSettings(newInstruction) ==
    /\ ChatShown
    /\ LET updatedCharacter ==
               [currentCharacter EXCEPT !.systemInstruction = newInstruction]
       IN  /\ Start([IdleTask EXCEPT !.kind = "chatSettings",
                                     !.pc = "settingsSaveChar",
                                     !.char = currentCharacter,
                                     !.captured = messages,
                                     !.updated = updatedCharacter,
                                     !.userInput = newInstruction])
           /\ currentCharacter' = updatedCharacter
    /\ isLoading' = TRUE
    /\ dbQueue' = Append(dbQueue, nops + 1)
    /\ UNCHANGED <<now, aiInstance, characters, messages, currentPage, chatRef,
                   dbCharacters, dbChat, parseVars>>

(* saveCharacter resolves: setCharacters; deleteChatHistory is issued. *)
SettingsCharSaved(t) ==
    /\ At(t, "settingsSaveChar")
    /\ dbCharacters' = Put(dbCharacters, tasks[t].updated.id, tasks[t].updated)
    /\ characters' = ReplaceById(characters, tasks[t].updated)
    /\ dbQueue' = Requeue(t)
    /\ tasks' = [tasks EXCEPT ![t].pc = "settingsDelete"]
    /\ UNCHANGED <<now, aiInstance, currentCharacter, messages, isLoading,
                   currentPage, chatRef, dbChat, nops, parseVars>>

(* deleteChatHistory resolves: the greeting seed, setMessages, its write.  *)
SettingsDeleted(t) ==
    /\ At(t, "settingsDelete")
    /\ LET firstMessage == GreetingMessage(now, tasks[t].updated)
       IN  /\ dbChat' = Delete(dbChat, tasks[t].char.id)
           /\ messages' = <<firstMessage>>
           /\ now' = now + 1
           /\ dbQueue' = Requeue(t)
           /\ tasks' = [tasks EXCEPT ![t].pc = "settingsSave",
                                     ![t].msgs = <<firstMessage>>]
    /\ UNCHANGED <<aiInstance, characters, currentCharacter, isLoading,
                   currentPage, chatRef, dbCharacters, nops, parseVars>>

(* initializeChat with the character as it was before the update. *)
SettingsSavedOldInstruction(t) ==
    /\ At(t, "settingsSave")
    /\ dbChat' = Put(dbChat, tasks[t].updated.id, tasks[t].msgs)
    /\ chatRef' = initializeChat(tasks[t].char, tasks[t].msgs)
    /\ isLoading' = FALSE
    /\ dbQueue' = Dequeue(t)
    /\ tasks' = [tasks EXCEPT ![t].pc = "done"]
    /\ UNCHANGED <<now, aiInstance, characters, currentCharacter, messages,
                   currentPage, dbCharacters, nops, parseVars>>

(* The greeting is stored: initializeChat with the updated character;      *)
(* finally.                                                                 *)
SettingsSaved(t) ==
    /\ At(t, "settingsSave")
    /\ dbChat' = Put(dbChat, tasks[t].updated.id, tasks[t].msgs)
    /\ chatRef' = initializeChat(tasks[t].updated, tasks[t].msgs)
    /\ isLoading' = FALSE
    /\ dbQueue' = Dequeue(t)
    /\ tasks' = [tasks EXCEPT ![t].pc = "done"]
    /\ UNCHANGED <<now, aiInstance, characters, currentCharacter, messages,
                   currentPage, dbCharacters, nops, parseVars>>

(* A rejected store request inside the try block: catch, alert, finally. *)
SettingsFails(t) ==
    /\ \E pc \in {"settingsSaveChar", "settingsDelete", "settingsSave"} : At(t, pc)
    /\ isLoading' = FALSE
    /\ dbQueue' = Dequeue(t)
    /\ tasks' = [tasks EXCEPT ![t].pc = "done", ![t].storeFailed = TRUE]
    /\ UNCHANGED <<now, aiInstance, characters, currentCharacter, messages,
                   currentPage, chatRef, dbCharacters, dbChat, nops, parseVars>>

-----------------------------------------------------------------------------
(* handleSaveTransform (called by ChatInterface with character.id)          *)

Transforms == {[x |-> 10, y |-> 0, scale |-> 2]}

(* characters.find(c => c.id === characterId), Absent when there is none *)
FindCharacter(chars, characterId) ==
    IF \E i \in 1..Len(chars) : chars[i].id = characterId
    THEN chars[CHOOSE i \in 1..Len(chars) :
                  chars[i].id = characterId
                  /\ \A j \in 1..(i - 1) : chars[j].id # characterId]
    ELSE Absent

handleSaveTransform(characterId, transform) ==
    /\ ChatShown
    /\ LET characterToUpdate == FindCharacter(characters, characterId)
           updatedCharacter == [characterToUpdate EXCEPT !.transform = transform]
       IN  IF characterToUpdate = Absent
           THEN UNCHANGED vars
           ELSE /\ Start([IdleTask EXCEPT !.kind = "transform",
                                          !.pc = "transformSave",
                                          !.char = currentCharacter,
                                          !.captured = messages,
                                          !.updated = updatedCharacter])
                /\ characters' = ReplaceById(characters, updatedCharacter)
                /\ currentCharacter' =
                       IF currentCharacter.id = characterId THEN updatedCharacter
                       ELSE currentCharacter
                /\ dbQueue' = Append(dbQueue, nops + 1)
                /\ UNCHANGED <<now, aiInstance, messages, isLoading, currentPage,
                               chatRef, dbCharacters, dbChat, parseVars>>

TransformSaved(t) ==
    /\ At(t, "transformSave")
    /\ dbCharacters' = Put(dbCharacters, tasks[t].updated.id, tasks[t].updated)
    /\ dbQueue' = Dequeue(t)
    /\ tasks' = [tasks EXCEPT ![t].pc = "done"]
    /\ UNCHANGED <<now, aiInstance, characters, currentCharacter, messages,
                   isLoading, currentPage, chatRef, dbChat, nops, parseVars>>

-----------------------------------------------------------------------------
(* handleUpdateIndicator, the manual override of the earlier App.tsx        *)

IndicatorInputs == {-5, 70, 150}

(* initializeChat of the earlier App.tsx: a chat without history. *)
initializeChatOlder(char) ==
    IF ~aiInstance THEN chatRef
    ELSE [open |-> TRUE, systemInstruction |-> RenderInstruction(char),
          history |-> <<>>]

(* The message setMessages appends; it carries no id and no emotion. *)
IndicatorSetMessage(char) ==
    Message(Absent, "system",
            char.indicator.name \o " has been set to "
                \o ToString(char.indicator.value) \o ".",
            "")

handleUpdateIndicator(newValue) ==
    /\ ChatShown
    /\ LET newIndicatorValue == ClampIndicator(newValue)
           updatedCharacter ==
               [currentCharacter EXCEPT !.indicator.value = newIndicatorValue]
       IN  /\ Start([IdleTask EXCEPT !.kind = "override", !.pc = "overrideSave",
                                     !.char = currentCharacter,
                                     !.captured = messages,
                                     !.updated = updatedCharacter,
                                     !.newValue = newValue])
           /\ currentCharacter' = updatedCharacter
    /\ dbQueue' = Append(dbQueue, nops + 1)
    /\ UNCHANGED <<now, aiInstance, characters, messages, isLoading, currentPage,
                   chatRef, dbCharacters, dbChat, parseVars>>

(* saveCharacter resolves: setCharacters, setMessages(prev => ...),         *)
(* initializeChat.                                                          *)
OverrideSaved(t) ==
    /\ At(t, "overrideSave")
    /\ dbCharacters' = Put(dbCharacters, tasks[t].updated.id, tasks[t].updated)
    /\ characters' = ReplaceById(characters, tasks[t].updated)
    /\ messages' = Append(messages, IndicatorSetMessage(tasks[t].updated))
    /\ chatRef' = initializeChatOlder(tasks[t].updated)
    /\ dbQueue' = Dequeue(t)
    /\ tasks' = [tasks EXCEPT ![t].pc = "done"]
    /\ UNCHANGED <<now, aiInstance, currentCharacter, isLoading, currentPage,
                   dbChat, nops, parseVars>>

-----------------------------------------------------------------------------
(* The specifications.                                                      *)

MessageIds == {messages[i].id : i \in 1..Len(messages)}

(* The id of a message that is no longer, or never was, in the log. *)
UnknownId == MsgId(now, "-gone")

(* What the user can do on the page that is shown; a user who waits acts  *)
(* only when no handler is in flight.                                      *)
UserEvent(waits) ==
    \/ (waits => Quiet) /\ \E c \in Range(characters) : handleSelectCharacter(c)
    \/ (waits => Quiet) /\ \E b \in ImportBatches : handleImportCharacters(b)
    \/ (waits => Quiet) /\ handleBackToCharacterList
    \/ (waits => Quiet) /\ \E text \in SendTexts : handleSendMessage(text)
    \/ (waits => Quiet) /\ handleRegenerate
    \/ (waits => Quiet) /\ \E id \in MessageIds \cup {UnknownId} : handleDeleteMessage(id)
    \/ (waits => Quiet)
       /\ \E id \in MessageIds \cup {UnknownId}, text \in EditTexts :
              handleEditMessage(id, text)
    \/ (waits => Quiet) /\ handleNewChat
    \/ (waits => Quiet) /\ handleSetSceneFromUpload
    \/ (waits => Quiet) /\ \E text \in Instructions : handleSaveChatSettings(text)
    \/ (waits => Quiet)
       /\ \E tr \in Transforms : handleSaveTransform(currentCharacter.id, tr)

(* A store request resolves or the model call returns, and the handler     *)
(* goes on.                                                                *)
Resumes(t, responses) ==
    \/ SendUserSaved(t)
    \/ ModelReplies(t, responses)
    \/ SendFinalSaved(t)
    \/ SendCharSaved(t)
    \/ SelectLoaded(t)
    \/ SelectSaved(t)
    \/ RegenSaved(t)
    \/ RollbackSaved(t)
    \/ NewChatDeleted(t)
    \/ NewChatSaved(t)
    \/ UploadSaved(t)
    \/ SettingsCharSaved(t)
    \/ SettingsDeleted(t)
    \/ SettingsSaved(t)
    \/ TransformSaved(t)
    \/ ImportGotAll(t)
    \/ ImportSaved(t)
    \/ ImportReloaded(t)

(* A store request is rejected, or the write of a catch block resolves. *)
StoreRejects(t) ==
    \/ SendErrorSaved(t)
    \/ SendUserSaveFails(t)
    \/ SendFinalSaveFails(t)
    \/ SendCharSaveFails(t)
    \/ SendErrorSaveFails(t)
    \/ SelectFails(t)
    \/ WriteRejects(t)
    \/ NewChatFails(t)
    \/ SettingsFails(t)
    \/ ImportFails(t)

(* Every interleaving of user events with the answers of the store and of  *)
(* the model client.  The store resolves every request; the model client   *)
(* may fail.                                                                *)
Next ==
    \/ LoadData
    \/ UserEvent(FALSE)
    \/ \E t \in Ops : Resumes(t, InterleavedResponses)

Spec == Init /\ [][Next]_vars

(* The same, and the store may reject any request. *)
NextFaulty ==
    \/ LoadData
    \/ UserEvent(FALSE)
    \/ \E t \in Ops : Resumes(t, InterleavedResponses)
    \/ \E t \in Ops : StoreRejects(t)

SpecFaulty == Init /\ [][NextFaulty]_vars

(* The user acts only when no handler is in flight, and the store resolves *)
(* every request; the model client may still fail.                          *)
NextSeq ==
    \/ LoadData
    \/ UserEvent(TRUE)
    \/ \E t \in Ops : Resumes(t, SessionResponses)

SpecSeq == InitSeq /\ [][NextSeq]_vars

(* The same user, on the chat page of the App.tsx that passes the manual   *)
(* override of the indicator to the chat interface.                        *)
NextOverride ==
    \/ NextSeq
    \/ Quiet /\ \E v \in IndicatorInputs : handleUpdateIndicator(v)
    \/ \E t \in Ops : OverrideSaved(t)

SpecOverride == InitSeq /\ [][NextOverride]_vars

(* The parser alone, on every response of the input set. *)
NotParsed == [done |-> FALSE, reply |-> ThrownReply]

InitParse ==
    /\ InitApp({"Welcome back!"})
    /\ response \in Responses
    /\ parsed = NotParsed

(* One call of getAIResponse on the response. *)
ParseResponse ==
    /\ ~parsed.done
    /\ parsed' = [done |-> TRUE, reply |-> getAIResponse(response)]
    /\ UNCHANGED <<response, appVars>>

NextParse == ParseResponse

SpecParse == InitParse /\ [][NextParse]_vars

-----------------------------------------------------------------------------
(* Properties of the response parser, checked under SpecParse.            *)

(* C6: response parsing is total: whatever the model call produced (empty  *)
(* text, text that is not JSON, JSON that is no object, JSON null, fenced   *)
(* text, no text at all, a rejected call), getAIResponse returns a reply    *)
(* whose dialogue and emotion are strings, and raises nothing.              *)
C6_ParsingIsTotal ==
    parsed.done =>
        /\ ~parsed.reply.threw
        /\ TypeofString(parsed.reply.dialogue)
        /\ TypeofString(parsed.reply.emotion)

(* C6 witness: JSON null was parsed and the fallback reply came back. *)
C6_Witness ==
    /\ parsed.done
    /\ response = TextResponse(<<Lit("null")>>)
    /\ parsed.reply = FallbackReply

WellFormedDialogues == {d \in DialogueOpts : d # <<>> /\ d[1].t = "str"}
WellFormedEmotions == {e \in EmotionOpts : e # <<>> /\ e[1].t = "str"}

(* The reply a well-formed object stands for, read off its fields. *)
ReplyOf(d, e, v) ==
    [threw |-> FALSE, dialogue |-> JStr(d[1].s), emotion |-> JStr(e[1].s),
     indicatorValue |->
         IF v # <<>> /\ v[1].t = "num" THEN JNum(v[1].n) ELSE JNull]

(* C7: a well-formed reply object inside a markdown code fence is parsed   *)
(* to its own dialogue, emotion and indicator value, whether the opening    *)
(* fence carries a language tag or none.                                    *)
C7_FencedReplyIsParsed ==
    parsed.done =>
        \A w \in {"fenceJson", "fenceBare"} :
            \A d \in WellFormedDialogues, e \in WellFormedEmotions,
               v \in IndicatorOpts :
                response = TextResponse(Wrap(w, ObjectText(d, e, v)))
                    => parsed.reply = ReplyOf(d, e, v)

-----------------------------------------------------------------------------
(* Properties of one operation at a time, checked under SpecSeq.          *)

Last(s) == s[Len(s)]

HistoryOf(store, id) == IF id \in DOMAIN store THEN store[id] ELSE <<>>

(* The step ends the handler invocation t. *)
Completes(t) == ~Finished(t) /\ tasks'[t].pc \in {"done", "threw"}

(* The step dispatches or resumes the Send t. *)
SendStep(t) == tasks'[t].kind = "send" /\ tasks'[t] # tasks[t]

(* The model client answered the call of t with this kind of response. *)
CallFailed(t) == tasks[t].called /\ tasks[t].resp.kind = "error"
MalformedText(resp) == resp.kind = "text" /\ TryParse(resp).threw
WellFormedText(resp) == resp.kind = "text" /\ ~TryParse(resp).threw

(* C1: when the model-client call made by an accepted Send fails, the Send *)
(* ends with the log being the log up to the user message followed by one   *)
(* message of sender system (so no ai message for the turn), with that log  *)
(* persisted, and with the session idle again.                              *)
C1_ModelFailureAppendsSystemMessage ==
    [][\A t \in Ops :
          (Completes(t) /\ tasks[t].kind = "send" /\ CallFailed(t)) =>
              /\ Len(messages') = Len(tasks[t].msgs) + 1
              /\ SubSeq(messages', 1, Len(tasks[t].msgs)) = tasks[t].msgs
              /\ Last(messages').sender = "system"
              /\ HistoryOf(dbChat', tasks[t].char.id) = messages'
              /\ ~isLoading']_vars

(* C3: if the log ends with a user message u and an ai message a, then     *)
(* when Regenerate has completed with a model reply the log has the length  *)
(* it had, is the old log up to u followed by one new ai message, a is no   *)
(* longer in it, and the persisted history equals it.                       *)
C3_RegenerateReplacesLastReply ==
    [][\A t \in Ops :
          (/\ Completes(t)
           /\ tasks[t].kind = "regenerate"
           /\ tasks[t].called
           /\ tasks[t].resp.kind = "text"
           /\ Len(tasks[t].captured) >= 2
           /\ tasks[t].captured[Len(tasks[t].captured) - 1].sender = "user") =>
              LET old == tasks[t].captured
                  n == Len(old)
              IN  /\ Len(messages') = n
                  /\ SubSeq(messages', 1, n - 1) = SubSeq(old, 1, n - 1)
                  /\ messages'[n].sender = "ai"
                  /\ \A i \in 1..Len(messages') : messages'[i].id # old[n].id
                  /\ HistoryOf(dbChat', tasks[t].char.id) = messages']_vars

(* C4: every indicator value in the persistent store, whichever operation  *)
(* wrote it, lies in 0..100.                                                *)
C4_StoredIndicatorInRange ==
    \A id \in DOMAIN dbCharacters :
        dbCharacters[id].indicator # Absent =>
            dbCharacters[id].indicator.value \in 0..100

(* C8: when the model returns malformed text for an accepted Send, no step *)
(* of that Send changes the character's indicator, in memory or in the      *)
(* store, and when the Send has completed the log's last entry is an ai     *)
(* message carrying the fixed apology text.                                 *)
C8_MalformedReplyGivesApology ==
    [][\A t \in Ops :
          (/\ SendStep(t)
           /\ \/ tasks'[t].pc \in {"sendSaveUser", "awaitModel"}
              \/ MalformedText(tasks'[t].resp)) =>
              /\ dbCharacters' = dbCharacters
              /\ currentCharacter'.indicator = currentCharacter.indicator
              /\ tasks'[t].pc \in {"done", "threw"} =>
                    /\ tasks'[t].pc = "done"
                    /\ Last(messages').sender = "ai"
                    /\ Last(messages').text =
                           "I'm sorry, I had trouble forming a response."]_vars

(* C8 witness: a Send answered with text that is no JSON has completed; the *)
(* log ends with the apology and the indicator is the stored 50.            *)
C8_Witness ==
    \E t \in Ops :
        /\ tasks[t].kind = "send" /\ tasks[t].pc = "done"
        /\ tasks[t].resp = TextResponse(<<Word("not"), WS, Word("json")>>)
        /\ Last(messages).sender = "ai" /\ Last(messages).text = ApologyText
        /\ currentCharacter.indicator.value = 50
        /\ dbCharacters[currentCharacter.id].indicator.value = 50

(* C9: when an accepted Send(text) has completed with a well-formed model  *)
(* reply, the log is the log before the Send followed by a user message     *)
(* with the sent text and an ai message with the reply's dialogue and       *)
(* emotion, the character's first declared emotion when the reply's emotion *)
(* is empty; if the reply carried an indicator value v, the character's     *)
(* indicator is v clamped to 0..100.                                        *)
C9_SendAppendsUserAndReply ==
    [][\A t \in Ops :
          (/\ Completes(t)
           /\ tasks[t].kind = "send"
           /\ tasks[t].called
           /\ WellFormedText(tasks[t].resp)) =>
              LET before == tasks[t].captured
                  n == Len(before)
                  r == TryParse(tasks[t].resp)
                  v == r.indicatorValue
              IN  /\ Len(messages') = n + 2
                  /\ SubSeq(messages', 1, n) = before
                  /\ messages'[n + 1].sender = "user"
                  /\ messages'[n + 1].text = tasks[t].userInput
                  /\ messages'[n + 2].sender = "ai"
                  /\ messages'[n + 2].text = r.dialogue.s
                  /\ messages'[n + 2].emotion =
                        IF r.emotion.s = "" THEN tasks[t].char.emotions[1]
                        ELSE r.emotion.s
                  /\ v # JNull =>
                        currentCharacter'.indicator.value =
                            IF v.n < 0 THEN 0 ELSE IF v.n > 100 THEN 100 ELSE v.n]_vars

(* C9 witness: a Send answered with a fenced reply of empty emotion and    *)
(* indicator value 150 has completed: the ai message shows the first        *)
(* declared emotion and the indicator is 100.                               *)
C9_Witness ==
    \E t \in Ops :
        /\ tasks[t].kind = "send" /\ tasks[t].pc = "done"
        /\ tasks[t].reply.emotion = JStr("") /\ tasks[t].reply.indicatorValue = JNum(150)
        /\ Len(messages) = Len(tasks[t].captured) + 2
        /\ Last(messages).emotion = "happy"
        /\ currentCharacter.indicator.value = 100

-----------------------------------------------------------------------------
(* Properties of interleavings, checked under Spec and SpecFaulty.        *)

(* The model-client call of t is in flight. *)
InFlight(t) == tasks[t].pc = "awaitModel" /\ tasks[t].called

(* C2: at every moment at most one model-client call is in flight.         *)
C2_AtMostOneModelCall == Cardinality({t \in Ops : InFlight(t)}) <= 1

(* C5: when an operation on the log (Send, Regenerate, Edit, Delete, New   *)
(* chat) during which a chat-history write was rejected has ended, with no  *)
(* other operation under way and its character still open, the in-memory    *)
(* log equals the persisted log.                                            *)
C5_FailedWriteKeepsLogsEqual ==
    [][\A t \in Ops :
          (/\ Completes(t)
           /\ tasks'[t].storeFailed
           /\ tasks[t].kind \in {"send", "regenerate", "edit", "delete", "newChat"}
           /\ tasks[t].pc # "sendSaveChar"
           /\ \A u \in Ops \ {t} : Finished(u)
           /\ currentCharacter'.id = tasks[t].char.id) =>
              messages' = HistoryOf(dbChat', tasks[t].char.id)]_vars

(* C10: whenever a Send that is no regeneration invokes the model client,  *)
(* the persisted history of its character ends with that Send's user        *)
(* message.                                                                 *)
C10_UserMessageStoredBeforeModelCall ==
    [][\A t \in Ops :
          (/\ tasks[t].kind = "send"
           /\ tasks[t].pc # "awaitModel"
           /\ tasks'[t].pc = "awaitModel"
           /\ tasks'[t].called) =>
              LET history == HistoryOf(dbChat', tasks[t].char.id)
              IN  /\ history # <<>>
                  /\ Last(history).sender = "user"
                  /\ Last(history).text = tasks[t].userInput
                  /\ Last(history) = Last(tasks[t].msgs)]_vars

(* C10 witness: the model call of a Send is in flight and the persisted    *)
(* history ends with the Send's user message.                               *)
C10_Witness ==
    \E t \in Ops :
        /\ tasks[t].kind = "send" /\ InFlight(t)
        /\ HistoryOf(dbChat, tasks[t].char.id) # <<>>
        /\ Last(HistoryOf(dbChat, tasks[t].char.id)) = UserMessage(now - 1, "hi")

-----------------------------------------------------------------------------
(* Properties of the log operations, checked under SpecSeq.                *)

(* The step dispatches the handler invocation t. *)
Dispatches(t) == tasks[t].kind = "none" /\ tasks'[t].kind # "none"

(* The 0-based position in msgs of the message with this id. *)
PositionOf(msgs, id) == CHOOSE p \in 0..(Len(msgs) - 1) : msgs[p + 1].id = id

(* C11: a rejected transition changes no state.  Every change a Send or a  *)
(* Regenerate makes begins with its dispatch, so: a Send is dispatched only *)
(* with a text that is not blank, with a character selected and a model     *)
(* context present; a Regenerate is dispatched only when the last message   *)
(* is an ai message and a user message precedes it.                         *)
C11_RejectedTransitionsChangeNothing ==
    [][\A t \in Ops :
          Dispatches(t) =>
              /\ tasks'[t].kind = "send" =>
                    /\ tasks'[t].userInput \notin {"", " "}
                    /\ currentCharacter # NoChar
                    /\ chatRef # NoChat
              /\ tasks'[t].kind = "regenerate" =>
                    /\ messages # <<>>
                    /\ Last(messages).sender = "ai"
                    /\ \E i \in 1..(Len(messages) - 1) :
                          messages[i].sender = "user"]_vars

(* C11 witness: a chat is open with only the greeting in the log and no    *)
(* handler in flight, where a blank Send and a Regenerate are rejected:     *)
(* the log and the persisted history are the greeting alone.                *)
C11_Witness ==
    /\ ChatShown /\ Quiet /\ ~isLoading
    /\ nops = 1
    /\ Len(messages) = 1 /\ messages[1].sender = "ai"
    /\ HistoryOf(dbChat, currentCharacter.id) = messages
    /\ SendRejected(" ")

(* C12: Edit(messageId, newText) on the message at 0-based position p      *)
(* yields a log of length p + 1 whose first p messages are unchanged and    *)
(* whose last is the message at p with its text replaced, and the persisted *)
(* history equals it; an Edit is dispatched only for an id in the log.      *)
C12_EditTruncatesAndReplaces ==
    [][\A t \in Ops :
          /\ (Dispatches(t) /\ tasks'[t].kind = "edit") =>
                \E i \in 1..Len(messages) : messages[i].id = tasks'[t].messageId
          /\ (Completes(t) /\ tasks[t].kind = "edit") =>
                LET old == tasks[t].captured
                    p == PositionOf(old, tasks[t].messageId)
                IN  /\ Len(messages') = p + 1
                    /\ SubSeq(messages', 1, p) = SubSeq(old, 1, p)
                    /\ messages'[p + 1].text = tasks[t].userInput
                    /\ messages'[p + 1].id = old[p + 1].id
                    /\ messages'[p + 1].sender = old[p + 1].sender
                    /\ messages'[p + 1].emotion = old[p + 1].emotion
                    /\ HistoryOf(dbChat', tasks[t].char.id) = messages']_vars

(* C12 witness: the user message at position 1 of a three-message log was  *)
(* edited: two messages are left and the second carries the new text.       *)
C12_Witness ==
    \E t \in Ops :
        /\ tasks[t].kind = "edit" /\ tasks[t].pc = "done"
        /\ Len(tasks[t].captured) = 3
        /\ Len(messages) = 2
        /\ messages[2].sender = "user" /\ messages[2].text = "edited"
        /\ HistoryOf(dbChat, tasks[t].char.id) = messages

(* C13: Delete(messageId) on the message at 0-based position p yields      *)
(* exactly the first p messages of the old log, and the persisted history   *)
(* equals it; a Delete is dispatched only for an id in the log.             *)
C13_DeleteTruncates ==
    [][\A t \in Ops :
          /\ (Dispatches(t) /\ tasks'[t].kind = "delete") =>
                \E i \in 1..Len(messages) : messages[i].id = tasks'[t].messageId
          /\ (Completes(t) /\ tasks[t].kind = "delete") =>
                LET old == tasks[t].captured
                    p == PositionOf(old, tasks[t].messageId)
                IN  /\ Len(messages') = p
                    /\ messages' = SubSeq(old, 1, p)
                    /\ HistoryOf(dbChat', tasks[t].char.id) = messages']_vars

(* C13 witness: the greeting, at position 0, was deleted: the log and the  *)
(* persisted history are empty.                                             *)
C13_Witness ==
    \E t \in Ops :
        /\ tasks[t].kind = "delete" /\ tasks[t].pc = "done"
        /\ tasks[t].captured # <<>>
        /\ messages = <<>>
        /\ currentCharacter # NoChar
        /\ tasks[t].char.id \in DOMAIN dbChat
        /\ dbChat[tasks[t].char.id] = <<>>

(* The turns a log stands for: one per user or ai message, in order. *)
RECURSIVE TurnsOf(_)
TurnsOf(msgs) ==
    IF msgs = <<>> THEN <<>>
    ELSE LET m == msgs[Len(msgs)]
             before == TurnsOf(SubSeq(msgs, 1, Len(msgs) - 1))
         IN  IF m.sender = "user"
             THEN Append(before, [role |-> "user", text |-> m.text])
             ELSE IF m.sender = "ai"
             THEN Append(before, [role |-> "model", text |-> m.text])
             ELSE before

(* The operations that rebuild the model context from the log. *)
RebuildingKinds == {"select", "edit", "delete", "newChat", "chatSettings"}

(* C14: when a Select, Edit, Delete, New chat or Update system instruction *)
(* completes, the prior turns of the model context are the user and ai      *)
(* messages of the current log in order, user as user and ai as model, the  *)
(* system messages left out.                                                *)
C14_ContextMatchesLog ==
    [][\A t \in Ops :
          (Completes(t) /\ tasks[t].kind \in RebuildingKinds) =>
              /\ chatRef' # NoChat
              /\ chatRef'.history = TurnsOf(messages')]_vars

(* C14 witness: such an operation has completed on a log that holds a      *)
(* system message, which the context leaves out.                            *)
C14_Witness ==
    \E t \in Ops :
        /\ tasks[t].kind \in RebuildingKinds /\ tasks[t].pc = "done"
        /\ Quiet
        /\ \E i \in 1..Len(messages) : messages[i].sender = "system"
        /\ chatRef # NoChat
        /\ chatRef.history = TurnsOf(messages)
        /\ Len(chatRef.history) < Len(messages)

-----------------------------------------------------------------------------
(* Properties of the indicator, checked under SpecOverride and Spec.       *)

(* C15: a manual override with value v sets the indicator of the active    *)
(* character to v clamped to 0..100 in memory and in the store, and leaves  *)
(* the message log as it was.                                               *)
C15_OverrideLeavesLogUnchanged ==
    [][\A t \in Ops :
          (Completes(t) /\ tasks[t].kind = "override") =>
              LET v == tasks[t].newValue
                  clamped == IF v < 0 THEN 0 ELSE IF v > 100 THEN 100 ELSE v
                  id == tasks[t].char.id
              IN  /\ currentCharacter'.indicator.value = clamped
                  /\ dbCharacters'[id].indicator.value = clamped
                  /\ messages' = messages]_vars

(* The step dispatches or resumes an operation that is to leave the        *)
(* indicator alone: Select, Edit, Delete, New chat, Update system           *)
(* instruction, Save transform, or the truncation of Regenerate.            *)
FrameStep(t) ==
    /\ tasks'[t] # tasks[t]
    /\ \/ tasks'[t].kind \in {"select", "edit", "delete", "newChat",
                              "chatSettings", "transform"}
       \/ /\ tasks'[t].kind = "regenerate"
          /\ tasks[t].kind = "none" \/ tasks[t].pc = "regenSave"

(* The step is the indicator update of a Send whose validated reply        *)
(* carries a numeric indicator value.                                       *)
IndicatorStep(t) ==
    /\ tasks'[t] # tasks[t]
    /\ tasks'[t].kind \in {"send", "regenerate"}
    /\ tasks[t].pc \in {"sendSaveFinal", "sendSaveChar"}
    /\ tasks'[t].reply.indicatorValue.k = "num"

(* No indicator value differs after the step: not in the store, not in the *)
(* character list, not on the active character.                             *)
IndicatorsKept ==
    /\ \A id \in (DOMAIN dbCharacters) \cap (DOMAIN dbCharacters') :
          dbCharacters'[id].indicator.value = dbCharacters[id].indicator.value
    /\ \A i \in 1..Len(characters), j \in 1..Len(characters') :
          characters'[j].id = characters[i].id =>
              characters'[j].indicator.value = characters[i].indicator.value
    /\ (currentCharacter # NoChar /\ currentCharacter'.id = currentCharacter.id) =>
          currentCharacter'.indicator.value = currentCharacter.indicator.value
    /\ (currentCharacter = NoChar /\ currentCharacter' # NoChar) =>
          \A i \in 1..Len(characters) :
              characters[i].id = currentCharacter'.id =>
                  currentCharacter'.indicator.value = characters[i].indicator.value

(* C16: the indicator value of a character changes only through a Send     *)
(* whose validated reply carries a numeric indicator value: the steps of    *)
(* Select, Edit, Delete, the truncation of Regenerate, New chat, Update     *)
(* system instruction and Save transform leave it unchanged in memory and   *)
(* in the store, and every step that changes it is such a Send's update.    *)
C16_IndicatorChangesOnlyBySend ==
    [][/\ \A t \in Ops : FrameStep(t) => IndicatorsKept
       /\ ~IndicatorsKept => \E t \in Ops : IndicatorStep(t)]_vars

-----------------------------------------------------------------------------
(* Properties of the operations that seed the log, checked under SpecSeq.  *)

(* The log is exactly one ai message carrying the greeting of char, or the *)
(* generic greeting when the character has none.                            *)
IsGreetingSeed(msgs, char) ==
    /\ Len(msgs) = 1
    /\ msgs[1].sender = "ai"
    /\ msgs[1].text = IF char.greeting = "" THEN "Hello, User." ELSE char.greeting

(* The model context holds the greeting turn and nothing else. *)
ContextHoldsOnly(chat, msgs) ==
    /\ chat # NoChat
    /\ chat.history = <<[role |-> "model", text |-> msgs[1].text]>>

(* C17: Select of a character with no persisted history ends with a log of *)
(* exactly one ai greeting message, which is persisted and from which the   *)
(* model context is built; Select of a character with a non-empty history   *)
(* sets the log to that history and writes nothing to the chat store.       *)
C17_SelectSeedsOrLoads ==
    [][\A t \in Ops :
          LET char == tasks'[t].char
              history == HistoryOf(dbChat, char.id)
          IN  /\ (tasks'[t].kind = "select" /\ tasks[t].pc = "selectGet") =>
                    IF history = <<>>
                    THEN /\ ~Completes(t)
                         /\ IsGreetingSeed(messages', char)
                    ELSE /\ Completes(t)
                         /\ messages' = history
                         /\ dbChat' = dbChat
              /\ (tasks'[t].kind = "select" /\ Dispatches(t)) => dbChat' = dbChat
              /\ (tasks[t].kind = "select" /\ tasks[t].pc = "selectSave") =>
                    /\ Completes(t)
                    /\ messages' = messages
                    /\ IsGreetingSeed(messages', char)
                    /\ HistoryOf(dbChat', char.id) = messages'
                    /\ ContextHoldsOnly(chatRef', messages')]_vars

(* C17 witness: a character whose log was seeded with the generic greeting *)
(* was selected again after a Send, and the log is the stored history.      *)
C17_Witness ==
    \E t, u \in Ops :
        /\ t < u
        /\ tasks[t].kind = "select" /\ tasks[t].pc = "done"
        /\ tasks[u].kind = "select" /\ tasks[u].pc = "done"
        /\ Len(messages) >= 2
        /\ messages[1].text = "Hello, User."
        /\ messages = HistoryOf(dbChat, tasks[u].char.id)

(* C18: when New chat completes, the log and the persisted history are the *)
(* single greeting message that Select would seed, and the model context    *)
(* holds only the greeting turn.                                            *)
C18_NewChatResetsToGreeting ==
    [][\A t \in Ops :
          (Completes(t) /\ tasks[t].kind = "newChat") =>
              /\ IsGreetingSeed(messages', tasks[t].char)
              /\ tasks[t].char.id \in DOMAIN dbChat'
              /\ dbChat'[tasks[t].char.id] = messages'
              /\ ContextHoldsOnly(chatRef', messages')]_vars

(* C18 witness: a New chat has completed on a log that held a user message *)
(* and a reply: only the greeting is left, in memory and in the store.      *)
C18_Witness ==
    \E t \in Ops :
        /\ tasks[t].kind = "newChat" /\ tasks[t].pc = "done"
        /\ Len(tasks[t].captured) = 3
        /\ tasks[t].captured[2].sender = "user"
        /\ IsGreetingSeed(messages, tasks[t].char)
        /\ HistoryOf(dbChat, tasks[t].char.id) = messages

(* C19: Update system instruction first persists the new instruction on    *)
(* the character record and then resets the history: the chat store is      *)
(* untouched until the record is stored, and when the operation completes   *)
(* the stored systemInstruction is the new one, the log and the persisted   *)
(* history are the single greeting message, and the model context was       *)
(* created under the new instruction.                                       *)
C19_InstructionStoredThenHistoryReset ==
    [][\A t \in Ops :
          LET id == tasks'[t].char.id
              newInstruction == tasks'[t].userInput
          IN  (tasks'[t].kind = "chatSettings" /\ tasks'[t] # tasks[t]) =>
                  /\ (Dispatches(t) \/ tasks[t].pc = "settingsSaveChar") =>
                        /\ dbChat' = dbChat
                        /\ messages' = messages
                  /\ tasks[t].pc = "settingsSaveChar" =>
                        dbCharacters'[id].systemInstruction = newInstruction
                  /\ (dbChat' # dbChat \/ messages' # messages) =>
                        /\ dbCharacters[id].systemInstruction = newInstruction
                        /\ dbCharacters' = dbCharacters
                  /\ Completes(t) =>
                        /\ dbCharacters'[id].systemInstruction = newInstruction
                        /\ IsGreetingSeed(messages', tasks[t].char)
                        /\ id \in DOMAIN dbChat'
                        /\ dbChat'[id] = messages'
                        /\ ContextHoldsOnly(chatRef', messages')
                        /\ chatRef'.systemInstruction.template = newInstruction]_vars

(* C19 witness: the instruction was updated on a log that held a user      *)
(* message: the record carries it, only the greeting is left, and the       *)
(* context was created under it.                                            *)
C19_Witness ==
    \E t \in Ops :
        /\ tasks[t].kind = "chatSettings" /\ tasks[t].pc = "done"
        /\ Len(tasks[t].captured) >= 2
        /\ tasks[t].char.systemInstruction # tasks[t].userInput
        /\ dbCharacters[tasks[t].char.id].systemInstruction = tasks[t].userInput
        /\ IsGreetingSeed(messages, tasks[t].char)
        /\ HistoryOf(dbChat, tasks[t].char.id) = messages
        /\ chatRef # NoChat
        /\ chatRef.systemInstruction.template = tasks[t].userInput

-----------------------------------------------------------------------------
(* Properties of the persisted history, checked under Spec.                *)

(* The operations of a chat session. *)
SessionKinds ==
    {"select", "send", "regenerate", "edit", "delete", "newChat",
     "chatSettings", "upload"}

(* C20: with a store that fails no write, when a Select, Send, Regenerate, *)
(* Edit, Delete, New chat, Update system instruction or scene upload        *)
(* completes, the persisted chat history of the active character equals     *)
(* the in-memory log, message for message and in the same order.  The       *)
(* comparison is made only when the completing operation was the last one   *)
(* in flight and the chat page of the active character is shown.            *)
C20_PersistedHistoryEqualsLog ==
    [][\A t \in Ops :
          (/\ Completes(t)
           /\ tasks[t].kind \in SessionKinds
           /\ \A u \in Ops : tasks'[u].pc \in {"idle", "done", "threw"}
           /\ currentCharacter' # NoChar
           /\ currentPage' = "chat") =>
              HistoryOf(dbChat', currentCharacter'.id) = messages']_vars

-----------------------------------------------------------------------------
(* Termination of a Send, checked under SpecFair.                           *)

(* The user of a conversation: opens a character, then sends and         *)
(* regenerates at any moment.                                               *)
ConversationEvent ==
    \/ \E c \in Range(characters) : handleSelectCharacter(c)
    \/ \E text \in SendTexts : handleSendMessage(text)
    \/ handleRegenerate

(* What the model client can answer here: a reply that moves the          *)
(* indicator, a text that is no JSON, and a failed call.                    *)
ConversationResponses ==
    { TextResponse(ObjectText(<<StrLit("hey!")>>, <<StrLit("happy")>>, <<NumLit(55)>>)),
      TextResponse(<<Word("not"), WS, Word("json")>>),
      ErrorResponse }

(* The store or the model client answers a request of these handlers; the  *)
(* store may reject it.                                                     *)
ConversationAnswer(t) ==
    \/ SendUserSaved(t)
    \/ ModelReplies(t, ConversationResponses)
    \/ SendFinalSaved(t)
    \/ SendCharSaved(t)
    \/ SendErrorSaved(t)
    \/ SelectLoaded(t)
    \/ SelectSaved(t)
    \/ RegenSaved(t)
    \/ SendUserSaveFails(t)
    \/ SendFinalSaveFails(t)
    \/ SendCharSaveFails(t)
    \/ SendErrorSaveFails(t)
    \/ SelectFails(t)
    \/ WriteRejects(t)

Answers == \E t \in Ops : ConversationAnswer(t)

NextFair ==
    \/ LoadData
    \/ ConversationEvent
    \/ Answers

(* The store and the model client answer every request in the end. *)
SpecFair == Init /\ [][NextFair]_vars /\ WF_vars(Answers)

(* A Send is in flight: accepted, and its handler has not yet returned. *)
SendInFlight == \E t \in Ops : tasks[t].kind = "send" /\ ~Finished(t)

(* C21: every accepted Send eventually returns the session to Idle: once a *)
(* Send is in flight, a state follows in which no Send is in flight and the *)
(* in-flight flag is cleared, whatever the model client answers and whether *)
(* or not the writes of the store succeed.                                  *)
C21_SendReturnsToIdle == SendInFlight ~> (~SendInFlight /\ ~isLoading)

(* C21 witness: Sends have returned after a malformed reply and after a    *)
(* rejected write, and the session is idle.                                 *)
C21_Witness ==
    /\ ~SendInFlight /\ ~isLoading
    /\ \E t \in Ops :
          /\ tasks[t].kind = "send" /\ Finished(t)
          /\ tasks[t].called /\ MalformedText(tasks[t].resp)
    /\ \E t \in Ops :
          /\ tasks[t].kind = "send" /\ Finished(t)
          /\ tasks[t].storeFailed

-----------------------------------------------------------------------------
(* The ids of the messages, checked under SpecClock.                        *)

(* The readings of Date.now() carried by the messages the app still holds: *)
(* in the log, in the store, or in the closure of a handler in flight.      *)
TimesOf(msgs) == {msgs[i].id.t : i \in 1..Len(msgs)}
TimesHeld ==
    UNION ({TimesOf(messages)}
           \cup {TimesOf(dbChat[id]) : id \in DOMAIN dbChat}
           \cup {TimesOf(tasks[t].msgs) : t \in Ops}
           \cup {TimesOf(tasks[t].final) : t \in Ops})

(* Less than a millisecond passes before the next reading of Date.now():   *)
(* it returns what the latest reading returned.                             *)
SameMillisecond ==
    /\ now > 0
    /\ (now - 1) \in TimesHeld
    /\ \A time \in TimesHeld : time < now
    /\ now' = now - 1
    /\ UNCHANGED <<aiInstance, characters, currentCharacter, messages, isLoading,
                   currentPage, chatRef, dbCharacters, dbChat, dbQueue, tasks,
                   nops, parseVars>>

(* Every interleaving, and every timing against the millisecond clock. *)
NextClock ==
    \/ Next
    \/ SameMillisecond

SpecClock == Init /\ [][NextClock]_vars

(* C22: all messages of the chat log have pairwise distinct ids, for every *)
(* timing of the operations.                                                *)
C22_MessageIdsDistinct ==
    \A i, j \in 1..Len(messages) : i # j => messages[i].id # messages[j].id

-----------------------------------------------------------------------------
(* The character registry: start-up with or without an API key, the save   *)
(* of the app settings, import and deletion on the character list page.    *)

(* loadData without a stored API key: the settings dialog is shown and     *)
(* nothing else is read.                                                    *)
LoadDataNoKey ==
    /\ isLoading /\ nops = 0 /\ ~aiInstance
    /\ isLoading' = FALSE
    /\ UNCHANGED <<now, aiInstance, characters, currentCharacter, messages,
                   currentPage, chatRef, dbCharacters, dbChat, dbQueue, tasks,
                   nops, parseVars>>

(* The settings dialog is open: no key was found, or the user opened it    *)
(* from the character list.                                                 *)
SettingsDialogShown == ~isLoading /\ currentPage = "characterList"

(* handleSaveSettings: setIsLoading(true), the settings are written. *)
handleSaveSettings ==
    /\ SettingsDialogShown
    /\ Start([IdleTask EXCEPT !.kind = "appSettings", !.pc = "appSettingsPut",
                              !.captured = messages, !.batch = characters])
    /\ isLoading' = TRUE
    /\ dbQueue' = Append(dbQueue, nops + 1)
    /\ UNCHANGED <<now, aiInstance, characters, currentCharacter, messages,
                   currentPage, chatRef, dbCharacters, dbChat, parseVars>>

(* The three setSetting calls resolve: initializeAI; with an empty registry *)
(* getAllCharacters is issued, otherwise the dialog closes.                 *)
AppSettingsStored(t) ==
    /\ At(t, "appSettingsPut")
    /\ aiInstance' = TRUE
    /\ IF tasks[t].batch = <<>>
       THEN /\ dbQueue' = Requeue(t)
            /\ tasks' = [tasks EXCEPT ![t].pc = "appSettingsLoad"]
            /\ UNCHANGED isLoading
       ELSE /\ dbQueue' = Dequeue(t)
            /\ tasks' = [tasks EXCEPT ![t].pc = "done"]
            /\ isLoading' = FALSE
    /\ UNCHANGED <<now, characters, currentCharacter, messages, currentPage,
                   chatRef, dbCharacters, dbChat, nops, parseVars>>

(* getAllCharacters resolves: setCharacters(storedCharacters), finally. *)
AppSettingsLoaded(t) ==
    /\ At(t, "appSettingsLoad")
    /\ characters' = GetAll(dbCharacters)
    /\ isLoading' = FALSE
    /\ dbQueue' = Dequeue(t)
    /\ tasks' = [tasks EXCEPT ![t].pc = "done"]
    /\ UNCHANGED <<now, aiInstance, currentCharacter, messages, currentPage,
                   chatRef, dbCharacters, dbChat, nops, parseVars>>

(* characters.filter(c => c.id !== characterId) *)
WithoutCharacter(chars, characterId) ==
    SelectSeq(chars, LAMBDA c : c.id # characterId)

(* handleDeleteCharacter: the record is looked up and the user confirms;   *)
(* deleteCharacterDB is issued.  An unknown id or a declined confirm       *)
(* changes nothing.                                                         *)
handleDeleteCharacter(characterId, confirmed) ==
    /\ ListPageShown
    /\ LET characterToDelete == FindCharacter(characters, characterId)
       IN  IF characterToDelete = Absent \/ ~confirmed
           THEN UNCHANGED vars
           ELSE /\ Start([IdleTask EXCEPT !.kind = "deleteCharacter",
                                          !.pc = "deleteCharDb",
                                          !.char = characterToDelete,
                                          !.captured = messages,
                                          !.batch = characters])
                /\ dbQueue' = Append(dbQueue, nops + 1)
                /\ UNCHANGED <<now, aiInstance, characters, currentCharacter,
                               messages, isLoading, currentPage, chatRef,
                               dbCharacters, dbChat, parseVars>>

(* deleteCharacterDB resolves; deleteChatHistory is issued. *)
CharacterDeleted(t) ==
    /\ At(t, "deleteCharDb")
    /\ dbCharacters' = Delete(dbCharacters, tasks[t].char.id)
    /\ dbQueue' = Requeue(t)
    /\ tasks' = [tasks EXCEPT ![t].pc = "deleteCharChat"]
    /\ UNCHANGED <<now, aiInstance, characters, currentCharacter, messages,
                   isLoading, currentPage, chatRef, dbChat, nops, parseVars>>

(* The last step without the cascade: the chat history is left alone. *)
CharacterHistoryKept(t) ==
    /\ At(t, "deleteCharChat")
    /\ characters' = WithoutCharacter(tasks[t].batch, tasks[t].char.id)
    /\ dbQueue' = Dequeue(t)
    /\ tasks' = [tasks EXCEPT ![t].pc = "done"]
    /\ UNCHANGED <<now, aiInstance, currentCharacter, messages, isLoading,
                   currentPage, chatRef, dbCharacters, dbChat, nops, parseVars>>

(* deleteChatHistory resolves; setCharacters over the list the handler     *)
(* was dispatched with.                                                     *)
CharacterHistoryDeleted(t) ==
    /\ At(t, "deleteCharChat")
    /\ dbChat' = Delete(dbChat, tasks[t].char.id)
    /\ characters' = WithoutCharacter(tasks[t].batch, tasks[t].char.id)
    /\ dbQueue' = Dequeue(t)
    /\ tasks' = [tasks EXCEPT ![t].pc = "done"]
    /\ UNCHANGED <<now, aiInstance, currentCharacter, messages, isLoading,
                   currentPage, chatRef, dbCharacters, nops, parseVars>>

(* The records an earlier version of the app, or an import, left in the    *)
(* store under one id.                                                      *)
LegacyRecords(id) ==
    { ImportRecord(id, "Mika", sprites, emotions, indicator) :
        sprites \in {Absent, Sprites(<<>>), Sprites(<<"happy", "sad">>)},
        emotions \in {<<>>, <<"happy">>},
        indicator \in {Absent, [name |-> "Trust", value |-> 10]} }

RegistryStores ==
    {EmptyStore}
    \cup {Put(EmptyStore, "c1", a) : a \in LegacyRecords("c1")}
    \cup {Put(Put(EmptyStore, "c1", StoredCharacter("")), "c2", b) :
            b \in LegacyRecords("c2")}

(* The history an earlier session left for a character. *)
OldHistory == <<UserMessage(0, "hi")>>

(* The files a user may import into the registry. *)
RegistryBatches ==
    { NotAnArray,
      ArrayOf(<<>>),
      ArrayOf(<<ImportRecord("c2", "Mika", Absent, <<>>, Absent)>>),
      ArrayOf(<<ImportRecord("c2", "Mika", Sprites(<<>>), <<>>, Absent)>>),
      ArrayOf(<<ImportRecord("c1", "Aiko", Sprites(<<"happy">>), <<>>, Absent),
                ImportRecord("", "Mika", Sprites(<<"happy">>), <<"happy">>, Absent),
                ImportRecord("c2", "", Sprites(<<"happy">>), <<"happy">>, Absent)>>),
      ArrayOf(<<ImportRecord("c2", "Mika", Sprites(<<"happy">>), <<"sad">>,
                             [name |-> "Trust", value |-> 150])>>) }

InitRegistry ==
    /\ now = 0
    /\ aiInstance = FALSE
    /\ characters = <<>>
    /\ currentCharacter = NoChar
    /\ messages = <<>>
    /\ isLoading = TRUE
    /\ currentPage = "characterList"
    /\ chatRef = NoChat
    /\ dbCharacters \in RegistryStores
    /\ \E ids \in SUBSET (DOMAIN dbCharacters) :
          dbChat = [id \in ids |-> OldHistory]
    /\ dbQueue = <<>>
    /\ tasks = [t \in Ops |-> IdleTask]
    /\ nops = 0
    /\ ParserUnused

(* What the user does on the character list, one thing at a time. *)
RegistryEvent ==
    \/ Quiet /\ handleSaveSettings
    \/ Quiet /\ \E b \in RegistryBatches : handleImportCharacters(b)
    \/ Quiet /\ \E id \in {"c1", "c2"}, confirmed \in BOOLEAN :
                   handleDeleteCharacter(id, confirmed)

RegistryAnswer(t) ==
    \/ AppSettingsStored(t)
    \/ AppSettingsLoaded(t)
    \/ ImportGotAll(t)
    \/ ImportSaved(t)
    \/ ImportReloaded(t)
    \/ CharacterDeleted(t)
    \/ CharacterHistoryDeleted(t)

NextRegistry ==
    \/ LoadData
    \/ LoadDataNoKey
    \/ RegistryEvent
    \/ \E t \in Ops : RegistryAnswer(t)

SpecRegistry == InitRegistry /\ [][NextRegistry]_vars

(* The record has a non-empty emotions list and an indicator. *)
InMigratedForm(char) == char.emotions # <<>> /\ char.indicator # Absent

(* C23: every character record in the in-memory registry has a non-empty   *)
(* emotions list and an indicator, whichever way the registry was loaded:  *)
(* at start-up, after the settings were first saved, after an import.      *)
C23_RegistryRecordsMigrated ==
    \A i \in 1..Len(characters) : InMigratedForm(characters[i])

(* C24: for every qualifying record of an import, the record written to    *)
(* the store is the migration of loadData applied to it: missing or empty  *)
(* emotions become the sprite keys, or the single label "neutral" when     *)
(* there are no sprite keys, and a missing indicator becomes Affection 50. *)
C24_ImportAppliesMigration ==
    [][\A t \in Ops :
          (tasks[t].pc = "importSave" /\ tasks'[t].pc = "importReload") =>
              \A i \in 1..Len(tasks[t].batch) :
                  LET rec == tasks[t].batch[i]
                  IN  /\ rec.id \in DOMAIN dbCharacters'
                      /\ dbCharacters'[rec.id] = Migrate(rec)]_vars

(* The positions of the records of a file that carry an id, a name and     *)
(* sprites.                                                                 *)
QualifyingIn(data) ==
    {i \in 1..Len(data.items) :
        /\ data.items[i].id # ""
        /\ data.items[i].name # ""
        /\ data.items[i].sprites # Absent}

(* C25: an import is accepted exactly when the file is an array with at    *)
(* least one record carrying id, name and sprites (a rejected import       *)
(* changes nothing); when its writes resolve, exactly those records have   *)
(* been written under their ids, with their name and sprites, and every    *)
(* other record of the store is as it was, the ids of the skipped records  *)
(* included.                                                                *)
C25_ImportUpsertsQualifyingOnly ==
    /\ [](\A b \in RegistryBatches :
            (ListPageShown /\ Quiet /\ nops < MaxOps) =>
                ((ENABLED <<handleImportCharacters(b)>>_vars)
                   <=> (b.array /\ QualifyingIn(b) # {})))
    /\ [][\A t \in Ops :
            (tasks[t].pc = "importSave" /\ tasks'[t].pc = "importReload") =>
                LET data == tasks[t].importedData
                    written == {data.items[i].id : i \in QualifyingIn(data)}
                IN  /\ DOMAIN dbCharacters' = DOMAIN dbCharacters \cup written
                    /\ \A i \in QualifyingIn(data) :
                          /\ dbCharacters'[data.items[i].id].name = data.items[i].name
                          /\ dbCharacters'[data.items[i].id].sprites =
                                data.items[i].sprites
                    /\ \A id \in DOMAIN dbCharacters \ written :
                          dbCharacters'[id] = dbCharacters[id]]_vars

(* C25 witness: an import of a file with a qualifying record c1 and a      *)
(* record c2 without a name has completed: c1 carries the imported name    *)
(* and sprites and the store holds no c2.                                   *)
C25_Witness ==
    \E t \in Ops :
        /\ tasks[t].kind = "import" /\ tasks[t].pc = "done"
        /\ \E i, j \in 1..Len(tasks[t].importedData.items) :
              /\ i \in QualifyingIn(tasks[t].importedData)
              /\ tasks[t].importedData.items[i].id = "c1"
              /\ j \notin QualifyingIn(tasks[t].importedData)
              /\ tasks[t].importedData.items[j].id = "c2"
        /\ "c2" \notin DOMAIN dbCharacters
        /\ "c1" \in DOMAIN dbCharacters
        /\ dbCharacters["c1"].sprites = Sprites(<<"happy">>)
        /\ characters = GetAll(dbCharacters)

(* The step is the start-up load with a stored API key. *)
StartupLoadStep == nops = 0 /\ isLoading /\ ~isLoading' /\ ~aiInstance /\ aiInstance'

(* C26: the migration is idempotent, migrate(migrate(c)) = migrate(c) for  *)
(* every record c the start-up load reads, and a record already in         *)
(* migrated form is not written back: the load writes no record that had   *)
(* emotions and an indicator, and leaves a store for which a second load   *)
(* has nothing to write.                                                    *)
C26_MigrationIdempotent ==
    [][StartupLoadStep =>
          LET stored == GetAll(dbCharacters)
              written == charactersToUpdate(stored)
          IN  /\ \A i \in 1..Len(stored) :
                    /\ Migrate(Migrate(stored[i])) = Migrate(stored[i])
                    /\ characters'[i] = Migrate(stored[i])
                    /\ InMigratedForm(stored[i]) =>
                          /\ Migrate(stored[i]) = stored[i]
                          /\ \A k \in 1..Len(written) : written[k].id # stored[i].id
              /\ charactersToUpdate(GetAll(dbCharacters')) = <<>>
              /\ charactersToUpdate(characters') = <<>>]_vars

(* C26 witness: the start-up load has run over a store holding a migrated  *)
(* record and a record without sprite keys, emotions and indicator: the    *)
(* second now carries the fallback label and Affection 50, in the registry *)
(* and in the store.                                                        *)
C26_Witness ==
    /\ nops = 0 /\ aiInstance /\ ~isLoading
    /\ Len(characters) = 2
    /\ characters[1] = StoredCharacter("")
    /\ characters[2].emotions = <<"neutral">>
    /\ characters[2].indicator = [name |-> "Affection", value |-> 50]
    /\ GetAll(dbCharacters) = characters

(* C27: when the deletion of a character completes, the store holds        *)
(* neither a character record nor a chat history under its id and the      *)
(* registry does not list it.                                               *)
C27_DeleteCascades ==
    [][\A t \in Ops :
          (tasks[t].kind = "deleteCharacter" /\ Completes(t)) =>
              LET id == tasks[t].char.id
              IN  /\ id \notin DOMAIN dbCharacters'
                  /\ id \notin DOMAIN dbChat'
                  /\ \A i \in 1..Len(characters') : characters'[i].id # id]_vars

(* C27 witness: of two characters with a chat history each, c1 has been    *)
(* deleted: the store holds the record and the history of c2 alone and the *)
(* registry lists c2 alone.                                                 *)
C27_Witness ==
    \E t \in Ops :
        /\ tasks[t].kind = "deleteCharacter" /\ tasks[t].pc = "done"
        /\ tasks[t].char.id = "c1"
        /\ Len(tasks[t].batch) = 2
        /\ DOMAIN dbCharacters = {"c2"}
        /\ DOMAIN dbChat = {"c2"}
        /\ Len(characters) = 1 /\ characters[1].id = "c2"

-----------------------------------------------------------------------------
(* Handlers that overlap a Send, checked under Spec.                        *)

(* The log a extends the log b. *)
Extends(a, b) == Len(a) >= Len(b) /\ SubSeq(a, 1, Len(b)) = b

(* The rollback u was dispatched after the Send t and has completed, the   *)
(* Send is still at the given position, and the given log is the one the   *)
(* rollback left.                                                           *)
RolledBackDuring(t, u, pc, log) ==
    /\ tasks[t].kind = "send" /\ tasks[t].pc = pc
    /\ u > t
    /\ tasks[u].kind \in {"delete", "edit", "newChat"}
    /\ tasks[u].pc = "done" /\ ~tasks[u].storeFailed
    /\ tasks[u].char.id = tasks[t].char.id
    /\ log = tasks[u].msgs

(* C28: a Delete, an Edit or a New chat that completes while the model     *)
(* call of a Send is in flight is not undone by the Send: when the reply   *)
(* arrives the log extends the rolled-back log, and when the Send's write  *)
(* resolves the persisted history extends the rolled-back history.          *)
C28_RollbackSurvivesSend ==
    [][\A t, u \in Ops :
          /\ (RolledBackDuring(t, u, "awaitModel", messages)
              /\ tasks'[t].pc # "awaitModel") =>
                 Extends(messages', messages)
          /\ (RolledBackDuring(t, u, "sendSaveFinal",
                               HistoryOf(dbChat, tasks[t].char.id))
              /\ tasks'[t].pc # "sendSaveFinal") =>
                 Extends(HistoryOf(dbChat', tasks[t].char.id),
                         HistoryOf(dbChat, tasks[t].char.id))]_vars

(* The chat handlers and the deletion of a character, interleaved: the     *)
(* user may go back to the character list and delete the character while  *)
(* handlers dispatched on the chat page are in flight.                     *)
NextDeletion ==
    \/ Next
    \/ \E c \in Range(characters), confirmed \in BOOLEAN :
          handleDeleteCharacter(c.id, confirmed)
    \/ \E t \in Ops : CharacterDeleted(t)
    \/ \E t \in Ops : CharacterHistoryDeleted(t)

SpecDeletion == Init /\ [][NextDeletion]_vars

(* The deletion u of a character has completed, the store holds nothing    *)
(* under its id and it is not the active character.                         *)
DeletedAndLeft(u) ==
    /\ tasks[u].kind = "deleteCharacter" /\ tasks[u].pc = "done"
    /\ tasks[u].char.id \notin DOMAIN dbCharacters
    /\ tasks[u].char.id \notin DOMAIN dbChat
    /\ currentCharacter.id # tasks[u].char.id

(* C29: once the user has left the chat and the deletion of the character  *)
(* has completed, no step writes a chat history for its id, none but an    *)
(* import writes a character record for it, it does not become the active  *)
(* character again, and no step of a Send that was in flight for it        *)
(* changes the log.                                                         *)
C29_NothingWrittenAfterDeletion ==
    [][\A u \in Ops :
          DeletedAndLeft(u) =>
              LET id == tasks[u].char.id
              IN  /\ id \notin DOMAIN dbChat'
                  /\ id \in DOMAIN dbCharacters' =>
                        \E t \in Ops : tasks'[t].kind = "import" /\ tasks'[t] # tasks[t]
                  /\ currentCharacter'.id # id
                  /\ \A t \in Ops :
                        (tasks[t].kind = "send" /\ tasks[t].char.id = id
                         /\ tasks'[t] # tasks[t]) => messages' = messages]_vars

(* C30: a Send that updates the indicator changes nothing of the persisted *)
(* character record but indicator.value: when its saveCharacter resolves,  *)
(* the record is the one the store held with the new value, a transform    *)
(* saved while the model call was in flight included.                       *)
C30_SendChangesIndicatorOnly ==
    [][\A t \in Ops :
          (tasks[t].kind = "send" /\ tasks[t].pc = "sendSaveChar"
           /\ tasks'[t].pc # "sendSaveChar"
           /\ tasks[t].char.id \in DOMAIN dbCharacters) =>
              /\ tasks[t].char.id \in DOMAIN dbCharacters'
              /\ dbCharacters'[tasks[t].char.id] =
                    [dbCharacters[tasks[t].char.id] EXCEPT
                        !.indicator.value = tasks[t].updated.indicator.value]]_vars

====
